---------------------------- MODULE Spec2Model ----------------------------
(***************************************************************************)
(* Model of the fastapi_backend AI advisor: the routers of                 *)
(* routers/ai_advisor.py (upload-document, get-advice, get conversation),  *)
(* the AIFinancialAdvisor of services/ai_service.py, the DocumentAnalyzer  *)
(* of services/document_processor.py and utils/file_handler.py.            *)
(*                                                                         *)
(* A text (a Python str) is a sequence of tokens; an f-string is the       *)
(* concatenation of its parts.  An Optional value is None (the empty       *)
(* sequence) or Some(v) (the one-element sequence).  Every `await` of the  *)
(* code ends an action: the code between two awaits runs as one step of    *)
(* the event loop.                                                         *)
(***************************************************************************)
EXTENDS Integers, Sequences, FiniteSets, TLC

VARIABLES
    driver,         \* "http": requests enter through the routers; "direct": the service methods are called directly
    apiKey,         \* os.getenv("SUTRA_API_KEY") is set
    conversations,  \* table conversations, in insertion order (id = position)
    messages,       \* table conversation_messages, in insertion order (id = position)
    documents,      \* table conversation_documents, in insertion order (id = position)
    clock,          \* datetime.utcnow()
    uploads,        \* the files that exist under UPLOAD_DIR
    started,        \* number of requests / calls begun so far
    tasks,          \* the request tasks (one per slot), each with its locals
    last_context    \* history, per conversation: what the last get-advice request saw and appended

vars == <<driver, apiKey, conversations, messages, documents, clock, uploads, started, tasks,
          last_context>>

-----------------------------------------------------------------------------
(* Bounds *)

\* Total number of requests (or direct calls) of one behaviour.
MaxRequests == 2

\* Longest conversation_context handed to a direct call of the advisor.
MaxContext == 2

-----------------------------------------------------------------------------
(* Python values *)

None == <<>>

Some(v) == <<v>>

\* Python truthiness of an Optional[str] / Optional[list]: None and the empty value are falsy.
Truthy(opt) == opt # None /\ opt[1] # <<>>

\* image_size is a Python tuple when PIL gives it and a list when JSON gives it back.
tuple(items) == [tuple |-> items]

list(items) == [list |-> items]

items_of(v) == IF "tuple" \in DOMAIN v THEN v.tuple ELSE v.list

\* dict.get(key, default)
Get(rec, key, default) == IF key \in DOMAIN rec THEN rec[key] ELSE default

Whitespace == {" ", "\n", "\t"}

RECURSIVE lstrip(_)
lstrip(s) ==
    IF s # <<>> /\ Head(s) \in Whitespace THEN lstrip(Tail(s)) ELSE s

RECURSIVE rstrip(_)
rstrip(s) ==
    IF s # <<>> /\ s[Len(s)] \in Whitespace THEN rstrip(SubSeq(s, 1, Len(s) - 1)) ELSE s

\* str.strip()
strip(s) == rstrip(lstrip(s))

lower_char(c) ==
    CASE c = "E" -> "e"
      [] c = "S" -> "s"
      [] c = "N" -> "n"
      [] c = "T" -> "t"
      [] c = "A" -> "a"
      [] c = "B" -> "b"
      [] c = "Balance" -> "balance"
      [] c = "Credit" -> "credit"
      [] c = "Expense" -> "expense"
      [] c = "Savings" -> "savings"
      [] c = "Date" -> "date"
      [] c = ".PDF" -> ".pdf"
      [] c = ".Csv" -> ".csv"
      [] c = ".TXT" -> ".txt"
      [] OTHER -> c

\* str.lower()
lower(s) == [i \in 1..Len(s) |-> lower_char(s[i])]

-----------------------------------------------------------------------------
(* langchain messages *)

SystemMessage(content) == [role |-> "system", content |-> content]

HumanMessage(content) == [role |-> "user", content |-> content]

AIMessage(content) == [role |-> "assistant", content |-> content]

-----------------------------------------------------------------------------
(* AIFinancialAdvisor: the message sequences it builds *)

detection_prompt(text) == <<"Detect the language of: ">> \o text \o <<" Language code:">>

\* A detect_language that trims the response and keeps the case of its letters.
detected_language_as_written(content) ==
    LET d == strip(content)
    IN IF d # <<>> THEN d ELSE <<"e", "n">>

\* detect_language: what is returned for the model's response content.
detected_language(content) ==
    LET d == lower(strip(content))
    IN IF d # <<>> THEN d ELSE <<"e", "n">>

\* Characters of text_content quoted in the system instruction of get_advice.
PreviewLen == 500

Take(s, n) == SubSeq(s, 1, IF Len(s) < n THEN Len(s) ELSE n)

\* A block that quotes the whole text of the document.
document_block_whole_text(doc) ==
    <<"Document: ">> \o Get(doc, "file_name", <<"Unknown">>)
    \o <<"Type: ">> \o Get(doc, "file_type", <<"Unknown">>)
    \o (IF Truthy(Get(doc, "analysis_result", None))
        THEN LET analysis == doc.analysis_result[1]
             IN <<"Summary: ">> \o Get(analysis, "summary", <<"No summary available">>)
                \o (IF Get(analysis, "text_content", <<>>) # <<>>
                    THEN <<"Content Preview: ">> \o analysis.text_content \o <<"...">>
                    ELSE <<>>)
        ELSE <<>>)

document_block(doc) ==
    <<"Document: ">> \o Get(doc, "file_name", <<"Unknown">>)
    \o <<"Type: ">> \o Get(doc, "file_type", <<"Unknown">>)
    \o (IF Truthy(Get(doc, "analysis_result", None))
        THEN LET analysis == doc.analysis_result[1]
             IN <<"Summary: ">> \o Get(analysis, "summary", <<"No summary available">>)
                \o (IF Get(analysis, "text_content", <<>>) # <<>>
                    THEN <<"Content Preview: ">> \o Take(analysis.text_content, PreviewLen) \o <<"...">>
                    ELSE <<>>)
        ELSE <<>>)

RECURSIVE document_blocks(_)
document_blocks(docs) ==
    IF docs = <<>> THEN <<>> ELSE document_block(Head(docs)) \o document_blocks(Tail(docs))

advice_system_content(language, document_context) ==
    <<"You are a helpful multilingual financial advisor. The user has asked a question in ">>
    \o language \o <<"Language guidelines">>
    \o (IF Truthy(document_context)
        THEN <<"IMPORTANT DOCUMENT CONTEXT:">> \o document_blocks(document_context[1])
             \o <<"Use this document context">>
        ELSE <<>>)

\* A replay loop that skips no entry: an entry of any other role is replayed as a user message.
RECURSIVE replay_every_role(_)
replay_every_role(ctx) ==
    IF ctx = <<>> THEN <<>>
    ELSE LET msg == Head(ctx)
         IN (IF Get(msg, "role", None) = "assistant" THEN <<AIMessage(Get(msg, "content", <<>>))>>
             ELSE <<HumanMessage(Get(msg, "content", <<>>))>>)
            \o replay_every_role(Tail(ctx))

\* The replay loop over the entries of conversation_context.
RECURSIVE replay(_)
replay(ctx) ==
    IF ctx = <<>> THEN <<>>
    ELSE LET msg == Head(ctx)
         IN (IF Get(msg, "role", None) = "user" THEN <<HumanMessage(Get(msg, "content", <<>>))>>
             ELSE IF Get(msg, "role", None) = "assistant" THEN <<AIMessage(Get(msg, "content", <<>>))>>
             ELSE <<>>)
            \o replay(Tail(ctx))

history(conversation_context) ==
    IF Truthy(conversation_context) THEN replay(conversation_context[1]) ELSE <<>>

advice_messages(prompt, language, conversation_context, document_context) ==
    <<SystemMessage(advice_system_content(language, document_context))>>
    \o history(conversation_context)
    \o <<HumanMessage(prompt)>>


\* Characters of text_content quoted in the document prompts.
PromptLen == 1000

\* ', '.join(items) for a list of strings (each one token)
RECURSIVE join(_)
join(items) ==
    IF items = <<>> THEN <<>>
    ELSE IF Len(items) = 1 THEN <<Head(items)>>
    ELSE <<Head(items), ", ">> \o join(Tail(items))

\* str(n) of a count, or the default text of dict.get when the key is absent
count_text(rec, key, default) ==
    IF key \in DOMAIN rec THEN <<ToString(rec[key])>> ELSE default

document_system_content(language, conversation_context) ==
    <<"You are an expert financial advisor analyzing documents. You must respond in ">>
    \o language \o <<" language. Focus on: insights, recommendations, budgeting, investment, risk">>
    \o (IF Truthy(conversation_context)
        THEN <<"CONVERSATION CONTEXT:", "Consider the previous conversation">>
        ELSE <<>>)

document_prompt(analysis_result, file_type, text_content) ==
    IF file_type = <<"Excel Spreadsheet">> \/ file_type = <<"CSV File">>
    THEN <<"I have analyzed a ">> \o file_type
         \o <<"File Summary: ">> \o Get(analysis_result, "summary", <<>>)
         \o <<"Rows: ">> \o count_text(analysis_result, "rows", <<"N/A">>)
         \o <<"Columns: ">> \o count_text(analysis_result, "columns", <<"N/A">>)
         \o <<"Column Names: ">> \o join(Get(analysis_result, "column_names", <<>>))
         \o <<"Numeric Columns: ">> \o join(Get(analysis_result, "numeric_columns", <<>>))
         \o <<"Potential Financial Columns: ">>
         \o join(Get(analysis_result, "potential_financial_columns", <<>>))
    ELSE IF file_type = <<"PDF Document">> \/ file_type = <<"Word Document">>
    THEN <<"I have analyzed a ">> \o file_type
         \o <<"Document Summary: ">> \o Get(analysis_result, "summary", <<>>)
         \o <<"Content Preview: ">> \o Take(text_content, PromptLen) \o <<"...">>
    ELSE IF file_type = <<"Image">>
    THEN <<"I have analyzed an image document with OCR text extraction">>
         \o <<"Image Summary: ">> \o Get(analysis_result, "summary", <<>>)
         \o <<"Extracted Text: ">> \o text_content
    ELSE <<"I have analyzed a financial document">>
         \o <<"Summary: ">> \o Get(analysis_result, "summary", <<>>)
         \o <<"Content: ">> \o Take(text_content, PromptLen) \o <<"...">>

document_messages(analysis_result, file_type, language, conversation_context) ==
    <<SystemMessage(document_system_content(language, conversation_context))>>
    \o history(conversation_context)
    \o <<HumanMessage(document_prompt(analysis_result, file_type,
                                      Get(analysis_result, "text_content", <<>>)))>>

-----------------------------------------------------------------------------
(* AIFinancialAdvisor: a call in progress.                                  *)
(* A call is a record: fn (the method), its arguments, pc ("detect": the    *)
(* language detection's invocation is awaited; "invoke": the advice         *)
(* invocation is awaited; "returned"; "raised"), language (the local        *)
(* variable), sent (every llm.ainvoke made so far: the messages and the     *)
(* model's reply), ret (the value returned) and error (the exception).      *)

NoArgs ==
    [prompt |-> <<>>, language |-> None, conversation_context |-> None,
     document_context |-> None, analysis_result |-> [file_type |-> <<"Unknown">>],
     file_type |-> <<>>]

Call(fn, args, pc, language) ==
    [fn |-> fn, args |-> args, pc |-> pc, language |-> language,
     sent |-> <<>>, ret |-> None, error |-> None]

\* AIFinancialAdvisor.detect_language(text), up to its await
call_detect_language(text) ==
    Call("detect_language", [NoArgs EXCEPT !.prompt = text], "detect", None)

\* AIFinancialAdvisor.get_advice(prompt, language, conversation_context, document_context), up to its first await
call_get_advice(prompt, language, conversation_context, document_context) ==
    Call("get_advice",
         [NoArgs EXCEPT !.prompt = prompt, !.language = language,
                        !.conversation_context = conversation_context,
                        !.document_context = document_context],
         IF language = None THEN "detect" ELSE "invoke",
         language)

\* AIFinancialAdvisor.get_financial_document_advice(analysis_result, file_type, conversation_context), up to its first await
call_get_financial_document_advice(analysis_result, file_type, conversation_context) ==
    LET text_content == Get(analysis_result, "text_content", <<>>)
    IN Call("get_financial_document_advice",
            [NoArgs EXCEPT !.analysis_result = analysis_result, !.file_type = file_type,
                           !.conversation_context = conversation_context],
            IF text_content # <<>> THEN "detect" ELSE "invoke",
            IF text_content # <<>> THEN None ELSE Some(<<"e", "n">>))

\* The text whose language the awaited detection is about.
detection_text(c) ==
    IF c.fn = "get_financial_document_advice"
    THEN Get(c.args.analysis_result, "text_content", <<>>)
    ELSE c.args.prompt

\* The messages of the llm.ainvoke the call is waiting for.
awaited_messages(c) ==
    IF c.pc = "detect" THEN <<HumanMessage(detection_prompt(detection_text(c)))>>
    ELSE IF c.fn = "get_advice"
    THEN advice_messages(c.args.prompt, c.language[1], c.args.conversation_context,
                         c.args.document_context)
    ELSE document_messages(c.args.analysis_result, c.args.file_type, c.language[1],
                           c.args.conversation_context)

\* The ainvoke raised: nothing in ai_service.py catches it.
ainvoke_raised(c, reply) ==
    [c EXCEPT !.sent = Append(@, [messages |-> awaited_messages(c), reply |-> reply]),
              !.pc = "raised", !.error = Some(reply.text)]

\* A detect_language that swallows the failure of the invocation and answers "en".
detect_language_default(c, reply) ==
    IF c.fn = "detect_language"
    THEN [c EXCEPT !.sent = Append(@, [messages |-> awaited_messages(c), reply |-> reply]),
                   !.pc = "returned",
                   !.ret = Some(IF reply.ok THEN detected_language(reply.text) ELSE <<"e", "n">>)]
    ELSE [c EXCEPT !.sent = Append(@, [messages |-> awaited_messages(c), reply |-> reply]),
                   !.pc = "invoke",
                   !.language = Some(IF reply.ok THEN detected_language(reply.text) ELSE <<"e", "n">>)]

\* detect_language resumes with the model's response.
detect_language(c, reply) ==
    IF ~reply.ok THEN ainvoke_raised(c, reply)
    ELSE IF c.fn = "detect_language"
    THEN [c EXCEPT !.sent = Append(@, [messages |-> awaited_messages(c), reply |-> reply]),
                   !.pc = "returned", !.ret = Some(detected_language(reply.text))]
    ELSE [c EXCEPT !.sent = Append(@, [messages |-> awaited_messages(c), reply |-> reply]),
                   !.pc = "invoke", !.language = Some(detected_language(reply.text))]

\* A completion that is tidied (stripped) before it is returned.
completion_stripped(c, reply) ==
    IF ~reply.ok THEN ainvoke_raised(c, reply)
    ELSE [c EXCEPT !.sent = Append(@, [messages |-> awaited_messages(c), reply |-> reply]),
                   !.pc = "returned", !.ret = Some(strip(reply.text))]

\* get_advice / get_financial_document_advice resume with the model's completion.
completion(c, reply) ==
    IF ~reply.ok THEN ainvoke_raised(c, reply)
    ELSE [c EXCEPT !.sent = Append(@, [messages |-> awaited_messages(c), reply |-> reply]),
                   !.pc = "returned", !.ret = Some(reply.text)]

\* One await of llm.ainvoke ends with `reply`.
ainvoke(c, reply) ==
    IF c.pc = "detect" THEN detect_language(c, reply) ELSE completion(c, reply)

Pending(c) == c.pc \in {"detect", "invoke"}

\* What the language model may answer: text it chooses freely, or a failure.
LlmTexts == { <<>>, <<" ", "E", "S", "\n">> }

LlmReplies ==
    [ok : {TRUE}, text : LlmTexts] \cup [ok : {FALSE}, text : {<<"llm unavailable">>}]

\* What the language model (or a stub of it) may answer to a direct call.
DirectLlmTexts == LlmTexts \cup { <<" ", "\n">>, <<"\t", "E", " ", "N">> }

DirectLlmReplies ==
    [ok : {TRUE}, text : DirectLlmTexts] \cup [ok : {FALSE}, text : {<<"llm unavailable">>}]

-----------------------------------------------------------------------------
(* DocumentAnalyzer.                                                        *)
(* The bytes of a file are abstracted to what the parsing libraries make of *)
(* them: parses (PdfReader / Document / pandas / PIL open it without an     *)
(* exception), text (the text or cell data extracted), rows (pages,         *)
(* paragraphs or table rows) and columns (the table's columns, each with    *)
(* its pandas dtype).                                                       *)

supported_types ==
    (<<".pdf">> :> <<"PDF Document">>) @@ (<<".doc">> :> <<"Word Document">>)
    @@ (<<".docx">> :> <<"Word Document">>) @@ (<<".xlsx">> :> <<"Excel Spreadsheet">>)
    @@ (<<".xls">> :> <<"Excel Spreadsheet">>) @@ (<<".csv">> :> <<"CSV File">>)
    @@ (<<".png">> :> <<"Image">>) @@ (<<".jpg">> :> <<"Image">>)
    @@ (<<".jpeg">> :> <<"Image">>) @@ (<<".bmp">> :> <<"Image">>)
    @@ (<<".tiff">> :> <<"Image">>)

\* The outcome of an analysis: a record returned, or a ValueError; reads counts the reads of the file.
Returned(value, reads) == [raised |-> FALSE, value |-> value, error |-> <<>>, reads |-> reads]

Raised(error, reads) == [raised |-> TRUE, value |-> [file_type |-> <<"Unknown">>], error |-> error, reads |-> reads]

analyze_pdf(body) ==
    IF ~body.parses THEN Raised(<<"Error analyzing PDF: ", "bad file">>, 1)
    ELSE Returned([file_type |-> <<"PDF Document">>, page_count |-> body.rows,
                   text_content |-> body.text, word_count |-> Len(body.text),
                   char_count |-> Len(body.text), analysis_type |-> "text_extraction",
                   summary |-> <<"PDF document with ", ToString(body.rows), " pages containing ",
                                 ToString(Len(body.text)), " words">>], 1)

analyze_word_document(body) ==
    IF ~body.parses THEN Raised(<<"Error analyzing Word document: ", "bad file">>, 1)
    ELSE Returned([file_type |-> <<"Word Document">>, paragraph_count |-> body.rows,
                   table_count |-> 0, text_content |-> body.text,
                   word_count |-> Len(body.text), char_count |-> Len(body.text),
                   analysis_type |-> "text_extraction", tables |-> None,
                   summary |-> <<"Word document with ", ToString(body.rows),
                                 " paragraphs and ", "0", " tables">>], 1)

NumberTypes == {"int64", "float64"}

financial_column_keywords ==
    {"amount", "price", "cost", "fee", "balance", "total", "sum", "revenue", "income", "expense"}

RECURSIVE select_names(_, _)
select_names(columns, dtypes) ==
    IF columns = <<>> THEN <<>>
    ELSE (IF Head(columns).dtype \in dtypes THEN <<Head(columns).name>> ELSE <<>>)
         \o select_names(Tail(columns), dtypes)

RECURSIVE financial_cols(_)
financial_cols(columns) ==
    IF columns = <<>> THEN <<>>
    ELSE (IF lower_char(Head(columns).name) \in financial_column_keywords
          THEN <<Head(columns).name>> ELSE <<>>)
         \o financial_cols(Tail(columns))

analyze_dataframe(body, data_name) ==
    [name |-> data_name, rows |-> body.rows, columns |-> Len(body.columns),
     column_names |-> [i \in 1..Len(body.columns) |-> body.columns[i].name],
     data_types |-> [i \in 1..Len(body.columns) |-> body.columns[i].dtype],
     numeric_columns |-> select_names(body.columns, NumberTypes),
     text_columns |-> select_names(body.columns, {"object"}),
     date_columns |-> select_names(body.columns, {"datetime64[ns]"})]
    @@ (IF select_names(body.columns, NumberTypes) # <<>>
        THEN [numeric_statistics |-> select_names(body.columns, NumberTypes)]
        ELSE <<>>)
    @@ (IF financial_cols(body.columns) # <<>>
        THEN [potential_financial_columns |-> financial_cols(body.columns)]
        ELSE <<>>)

table_text(body) ==
    <<"Rows: ", ToString(body.rows), ", Columns: ", ToString(Len(body.columns)), "Columns: ">>
    \o join([i \in 1..Len(body.columns) |-> body.columns[i].name])
    \o (IF body.rows > 0 THEN <<"Sample data:">> \o body.text ELSE <<>>)

analyze_excel_file(body) ==
    IF ~body.parses THEN Raised(<<"Error analyzing Excel file: ", "bad file">>, 1)
    ELSE Returned([file_type |-> <<"Excel Spreadsheet">>, sheet_count |-> 1,
                   sheets |-> <<analyze_dataframe(body, "Sheet1")>>,
                   analysis_type |-> "data_analysis",
                   text_content |-> <<"--- Sheet: ", "Sheet1">> \o table_text(body),
                   total_rows |-> body.rows, total_columns |-> Len(body.columns),
                   summary |-> <<"Excel file with ", "1", " sheets, ", ToString(body.rows),
                                 " total rows">>], 1)

analyze_csv_file(body) ==
    IF ~body.parses THEN Raised(<<"Error analyzing CSV file: ", "bad file">>, 1)
    ELSE Returned([file_type |-> <<"CSV File">>, analysis_type |-> "data_analysis",
                   summary |-> <<"CSV file with ", ToString(body.rows), " rows and ",
                                 ToString(Len(body.columns)), " columns">>,
                   text_content |->
                       <<"CSV File Analysis">> \o table_text(body)
                       \o (IF select_names(body.columns, NumberTypes) # <<>>
                           THEN <<"Numeric columns summary:">> ELSE <<>>)]
                  @@ analyze_dataframe(body, "CSV Data"), 1)

\* An _analyze_image that labels its record as a text extraction.
analyze_image_as_text(body) ==
    IF ~body.parses THEN Raised(<<"Error analyzing image: ", "bad file">>, 1)
    ELSE Returned([file_type |-> <<"Image">>, image_size |-> tuple(<<body.rows, body.rows>>),
                   image_mode |-> "RGB", text_content |-> body.text,
                   word_count |-> Len(body.text), char_count |-> Len(body.text),
                   analysis_type |-> "text_extraction",
                   summary |-> <<"Image (", ToString(body.rows), "x", ToString(body.rows),
                                 ") with ", ToString(Len(body.text)), " words extracted via OCR">>], 1)

analyze_image(body) ==
    IF ~body.parses THEN Raised(<<"Error analyzing image: ", "bad file">>, 1)
    ELSE Returned([file_type |-> <<"Image">>, image_size |-> tuple(<<body.rows, body.rows>>),
                   image_mode |-> "RGB", text_content |-> body.text,
                   word_count |-> Len(body.text), char_count |-> Len(body.text),
                   analysis_type |-> "ocr_extraction",
                   summary |-> <<"Image (", ToString(body.rows), "x", ToString(body.rows),
                                 ") with ", ToString(Len(body.text)), " words extracted via OCR">>], 1)

\* An analyze_document that opens the file before it looks at the extension.
analyze_document_opening(suffix, body) ==
    LET s == lower(suffix)
    IN IF s = <<".pdf">> THEN analyze_pdf(body)
       ELSE IF s \in {<<".doc">>, <<".docx">>} THEN analyze_word_document(body)
       ELSE IF s \in {<<".xlsx">>, <<".xls">>} THEN analyze_excel_file(body)
       ELSE IF s = <<".csv">> THEN analyze_csv_file(body)
       ELSE IF s \in {<<".png">>, <<".jpg">>, <<".jpeg">>, <<".bmp">>, <<".tiff">>}
       THEN analyze_image(body)
       ELSE Raised(<<"Unsupported file type: ">> \o s, 1)

\* DocumentAnalyzer.analyze_document(file_path): file_path.suffix is `suffix`, the file holds `body`.
analyze_document(suffix, body) ==
    LET s == lower(suffix)
    IN IF s = <<".pdf">> THEN analyze_pdf(body)
       ELSE IF s \in {<<".doc">>, <<".docx">>} THEN analyze_word_document(body)
       ELSE IF s \in {<<".xlsx">>, <<".xls">>} THEN analyze_excel_file(body)
       ELSE IF s = <<".csv">> THEN analyze_csv_file(body)
       ELSE IF s \in {<<".png">>, <<".jpg">>, <<".jpeg">>, <<".bmp">>, <<".tiff">>}
       THEN analyze_image(body)
       ELSE Raised(<<"Unsupported file type: ">> \o s, 0)

-----------------------------------------------------------------------------
(* AIFinancialAdvisor.generate_document_insights *)

financial_keywords ==
    <<"expense", "income", "budget", "investment", "profit", "loss", "revenue", "cost",
      "salary", "payment", "transaction", "account", "balance", "credit", "debit", "loan",
      "mortgage", "insurance", "tax", "savings">>

\* Keywords listed in the keyword insight.
MaxKeywords == 5

Tokens(text) == {text[i] : i \in 1..Len(text)}

RECURSIVE found_in(_, _)
found_in(keywords, text_lower) ==
    IF keywords = <<>> THEN <<>>
    ELSE (IF Head(keywords) \in Tokens(text_lower) THEN <<Head(keywords)>> ELSE <<>>)
         \o found_in(Tail(keywords), text_lower)

file_type_insights(analysis_result, file_type) ==
    IF file_type = <<"Excel Spreadsheet">>
    THEN <<(<<"Excel file contains ">> \o count_text(analysis_result, "sheet_count", <<"0">>)
            \o <<" sheets with ">> \o count_text(analysis_result, "total_rows", <<"0">>)
            \o <<" total rows">>)>>
         \o (IF Get(analysis_result, "potential_financial_columns", <<>>) # <<>>
             THEN <<(<<"Detected financial columns: ">>
                     \o join(analysis_result.potential_financial_columns))>>
             ELSE <<>>)
         \o (IF Get(analysis_result, "numeric_columns", <<>>) # <<>>
             THEN <<(<<"Contains ", ToString(Len(analysis_result.numeric_columns)),
                       " numeric columns for analysis">>)>>
             ELSE <<>>)
    ELSE IF file_type = <<"CSV File">>
    THEN <<(<<"CSV file with ">> \o count_text(analysis_result, "rows", <<"0">>)
            \o <<" rows and ">> \o count_text(analysis_result, "columns", <<"0">>)
            \o <<" columns">>)>>
         \o (IF Get(analysis_result, "potential_financial_columns", <<>>) # <<>>
             THEN <<(<<"Financial data columns identified: ">>
                     \o join(analysis_result.potential_financial_columns))>>
             ELSE <<>>)
    ELSE IF file_type = <<"PDF Document">>
    THEN << (<<"PDF document with ">> \o count_text(analysis_result, "page_count", <<"0">>)
             \o <<" pages">>),
            (<<"Contains ">> \o count_text(analysis_result, "word_count", <<"0">>)
             \o <<" words of text content">>) >>
    ELSE IF file_type = <<"Word Document">>
    THEN <<(<<"Word document with ">> \o count_text(analysis_result, "paragraph_count", <<"0">>)
            \o <<" paragraphs">>)>>
         \o (IF Get(analysis_result, "table_count", 0) > 0
             THEN <<(<<"Contains ", ToString(analysis_result.table_count),
                       " tables with structured data">>)>>
             ELSE <<>>)
    ELSE IF file_type = <<"Image">>
    THEN << <<"Image document (",
              ToString(items_of(Get(analysis_result, "image_size", list(<<0, 0>>)))[1]), "x",
              ToString(items_of(Get(analysis_result, "image_size", list(<<0, 0>>)))[2]), ")">>,
            (<<"OCR extracted ">> \o count_text(analysis_result, "word_count", <<"0">>)
             \o <<" words">>) >>
    ELSE <<>>

\* A generate_document_insights that subscripts the record for the size of an image.
insights_error_subscripted(analysis_result) ==
    IF Get(analysis_result, "file_type", <<"Unknown">>) # <<"Image">> THEN None
    ELSE IF "image_size" \notin DOMAIN analysis_result THEN Some(<<"KeyError: ", "image_size">>)
    ELSE IF Len(items_of(analysis_result.image_size)) < 2
    THEN Some(<<"IndexError: ", "list index out of range">>)
    ELSE None

\* What generate_document_insights raises, if anything: its only subscripts are [0] and [1]
\* of the image size, which it takes with a default of [0, 0].
insights_error(analysis_result) ==
    IF /\ Get(analysis_result, "file_type", <<"Unknown">>) = <<"Image">>
       /\ Len(items_of(Get(analysis_result, "image_size", list(<<0, 0>>)))) < 2
    THEN Some(<<"IndexError: ", "list index out of range">>)
    ELSE None

\* A generate_document_insights that lists every keyword it found.
generate_document_insights_every_keyword(analysis_result) ==
    LET file_type == Get(analysis_result, "file_type", <<"Unknown">>)
        text_lower == lower(Get(analysis_result, "text_content", <<>>))
        found_keywords == found_in(financial_keywords, text_lower)
        column_names == Get(analysis_result, "column_names", <<>>)
    IN file_type_insights(analysis_result, file_type)
       \o (IF found_keywords # <<>>
           THEN <<(<<"Financial keywords found: ">> \o join(found_keywords))>>
           ELSE <<>>)
       \o (IF Get(analysis_result, "potential_financial_columns", <<>>) # <<>>
           THEN << <<"Expense data found">> >> ELSE <<>>)
       \o (IF \E i \in 1..Len(column_names) :
                 lower_char(column_names[i]) \in {"credit", "debit", "balance"}
           THEN << <<"Credit information found">> >> ELSE <<>>)

generate_document_insights(analysis_result) ==
    LET file_type == Get(analysis_result, "file_type", <<"Unknown">>)
        text_lower == lower(Get(analysis_result, "text_content", <<>>))
        found_keywords == found_in(financial_keywords, text_lower)
        column_names == Get(analysis_result, "column_names", <<>>)
    IN file_type_insights(analysis_result, file_type)
       \o (IF found_keywords # <<>>
           THEN <<(<<"Financial keywords found: ">> \o join(Take(found_keywords, MaxKeywords)))>>
           ELSE <<>>)
       \o (IF Get(analysis_result, "potential_financial_columns", <<>>) # <<>>
           THEN << <<"Expense data found">> >> ELSE <<>>)
       \o (IF \E i \in 1..Len(column_names) :
                 lower_char(column_names[i]) \in {"credit", "debit", "balance"}
           THEN << <<"Credit information found">> >> ELSE <<>>)

-----------------------------------------------------------------------------
(* The storage: tables, and the ORDER BY of a SELECT *)

Last(s) == s[Len(s)]

\* A SELECT without its WHERE clause: the rows of every conversation.
RowsOfAll(table, conversation_id) == {table[i] : i \in 1..Len(table)}

Rows(table, conversation_id) ==
    {table[i] : i \in {j \in 1..Len(table) : table[j].conversation_id = conversation_id}}

\* SELECT ... ORDER BY field ASC: every sequence of the rows that ascends in `field`;
\* SQL leaves the order of rows with equal keys to the database.
RECURSIVE order_by(_, _)
order_by(rows, field) ==
    IF rows = {} THEN {<<>>}
    ELSE UNION { {<<r>> \o rest : rest \in order_by(rows \ {r}, field)} :
                 r \in {x \in rows : \A y \in rows : x[field] <= y[field]} }

\* What the JSON column gives back for a stored value: a tuple comes back as a list.
json_loads_dumps(record) ==
    [k \in DOMAIN record |->
        IF k = "image_size" THEN list(items_of(record[k])) ELSE record[k]]

-----------------------------------------------------------------------------
(* Requests *)

Tasks == {1, 2}

Users == {"u1", "u2"}

MAX_FILE_SIZE == 52428800

Prompts == {<<"C">>}

Languages == {None, Some(<<>>), Some(<<"e", "s">>)}

NoBody == [parses |-> FALSE, text |-> <<>>, rows |-> 0, columns |-> <<>>]

TextBody == [parses |-> TRUE, text |-> <<"Total", "expense">>, rows |-> 1, columns |-> <<>>]

BlankBody == [parses |-> TRUE, text |-> <<>>, rows |-> 1, columns |-> <<>>]

TableBody ==
    [parses |-> TRUE, text |-> <<"2024", "100">>, rows |-> 1,
     columns |-> <<[name |-> "Date", dtype |-> "object"], [name |-> "Balance", dtype |-> "int64"]>>]

\* A table with a column of True and False, which pandas reads as bool.
FlagBody ==
    [parses |-> TRUE, text |-> <<"100", "True">>, rows |-> 1,
     columns |-> <<[name |-> "total", dtype |-> "float64"], [name |-> "paid", dtype |-> "bool"]>>]

\* An UploadFile: filename (None, or stem and suffix), size (the declared size, None when
\* the client sends none), nbytes (the bytes it holds) and what they parse to.
File(filename, size, nbytes, body) ==
    [filename |-> filename, size |-> size, nbytes |-> nbytes, body |-> body]

Name(stem, suffix) == Some([stem |-> stem, suffix |-> suffix])

NoFile == File(None, None, 0, NoBody)

Files ==
    { File(Name("statement", <<".PDF">>), Some(2048), 2048, TextBody),
      File(Name("scan", <<".png">>), Some(1024), 1024, BlankBody),
      File(Name("broken", <<".pdf">>), Some(100), 100, NoBody),
      File(Name("notes", <<".TXT">>), Some(10), 10, TextBody),
      File(None, Some(10), 10, TextBody),
      File(Name("huge", <<".pdf">>), Some(MAX_FILE_SIZE + 1), MAX_FILE_SIZE + 1, TextBody) }

\* file.filename as a str
filename_text(file) == <<file.filename[1].stem>> \o file.filename[1].suffix

IdleTask ==
    [kind |-> "idle", pc |-> "done", id |-> 0,
     user |-> "u1", conversation_id |-> None, message |-> <<>>, language |-> None,
     file |-> NoFile,
     conversation |-> None, loaded_language |-> <<>>, created |-> FALSE, not_found |-> FALSE,
     rows |-> <<>>, docs |-> <<>>, conversation_context |-> None, document_context |-> None,
     saved_path |-> None, analysis_result |-> None, reads |-> 0,
     calls |-> <<>>, ai_advice |-> None, insights |-> <<>>,
     new_document |-> None, new_messages |-> <<>>,
     conv_language |-> None, conv_updated_at |-> None,
     steps |-> <<>>, status |-> 0, detail |-> <<>>, response |-> None]

\* raise HTTPException(status_code, detail) leaving the router, or the response returned.
Respond(tk, status, detail) ==
    [tk EXCEPT !.pc = "done", !.status = status, !.detail = detail]

Log(tk, entries) == [tk EXCEPT !.steps = @ \o entries]

supported_extensions ==
    {<<".pdf">>, <<".doc">>, <<".docx">>, <<".xlsx">>, <<".xls">>, <<".csv">>, <<".png">>,
     <<".jpg">>, <<".jpeg">>, <<".bmp">>, <<".tiff">>}

\* An upload_document without the check of the size.
enter_upload_document_any_size(tk, key) ==
    IF ~key
    THEN Respond(tk, 500, <<"API configuration error. Please set SUTRA_API_KEY environment variable.">>)
    ELSE IF tk.file.filename = None
    THEN Respond(tk, 400, <<"No filename provided">>)
    ELSE IF lower(tk.file.filename[1].suffix) \notin supported_extensions
    THEN Respond(tk, 400, <<"Unsupported file type: ">> \o lower(tk.file.filename[1].suffix)
                          \o <<". Supported types: ", ".pdf, .doc, .docx, .xlsx, .xls, .csv, .png, .jpg, .jpeg, .bmp, .tiff">>)
    ELSE [tk EXCEPT !.pc = "conversation"]

\* upload_document from its entry to its first await (the checks before the try block).
enter_upload_document(tk, key) ==
    IF ~key
    THEN Respond(tk, 500, <<"API configuration error. Please set SUTRA_API_KEY environment variable.">>)
    ELSE IF tk.file.size # None /\ tk.file.size[1] # 0 /\ tk.file.size[1] > MAX_FILE_SIZE
    THEN Respond(tk, 413, <<"File size exceeds maximum limit of ", "50", "MB">>)
    ELSE IF tk.file.filename = None
    THEN Respond(tk, 400, <<"No filename provided">>)
    ELSE IF lower(tk.file.filename[1].suffix) \notin supported_extensions
    THEN Respond(tk, 400, <<"Unsupported file type: ">> \o lower(tk.file.filename[1].suffix)
                          \o <<". Supported types: ", ".pdf, .doc, .docx, .xlsx, .xls, .csv, .png, .jpg, .jpeg, .bmp, .tiff">>)
    ELSE [tk EXCEPT !.pc = "conversation"]

\* A get_advice router without the check of the credential.
enter_get_advice_unchecked(tk, key) == [tk EXCEPT !.pc = "conversation"]

\* get_advice (the router) from its entry to its first await.
enter_get_advice(tk, key) ==
    IF ~key
    THEN Respond(tk, 500, <<"API configuration error. Please set SUTRA_API_KEY environment variable.">>)
    ELSE [tk EXCEPT !.pc = "conversation"]

\* An except clause that leaves the saved file where it is.
cleanup_keeps_file(tk, files) == files

\* The except clause of the router: the files left under UPLOAD_DIR.
cleanup(tk, files) ==
    IF tk.kind = "upload_document" /\ tk.saved_path # None /\ tk.saved_path[1] \in files
    THEN files \ {tk.saved_path[1]}
    ELSE files

\* The except clause of the router: the HTTPException raised for exception `exc` (its str).
except_response(tk, exc) ==
    IF tk.kind = "upload_document"
    THEN Respond(tk, 400, <<"Document analysis failed: ">> \o exc)
    ELSE Respond(tk, 400, <<"Failed to get advice: ">> \o exc)

-----------------------------------------------------------------------------
(* The routers, from one await to the next *)

UserMessage(content, metadata) ==
    [role |-> "user", content |-> content, message_metadata |-> metadata]

AssistantMessage(content, metadata) ==
    [role |-> "assistant", content |-> content, message_metadata |-> metadata]

\* get_advice (the router) after advisor.get_advice returned `answer`, up to its next await.
after_get_advice(tk, answer, now) ==
    LET tk1 == [tk EXCEPT !.ai_advice = Some(answer),
                          !.new_messages = <<UserMessage(tk.message, None),
                                             AssistantMessage(answer, None)>>]
    IN IF ~Truthy(tk.language)
       THEN [tk1 EXCEPT !.calls = Append(@, call_detect_language(tk.message)), !.pc = "detect"]
       ELSE [tk1 EXCEPT !.conv_language = tk.language, !.conv_updated_at = Some(now),
                        !.pc = "commit"]

\* Either router after its own detect_language returned, up to the await of db.commit().
after_detect_language(tk, detected_code, now) ==
    [tk EXCEPT !.conv_language = Some(detected_code), !.conv_updated_at = Some(now),
               !.pc = "commit"]

\* An upload_document that adds the rows to the session before it extracts the insights.
after_document_advice_persist_first(tk, ai_advice, now) ==
    LET analysis_result == tk.analysis_result[1]
        file_type == Get(analysis_result, "file_type", <<"Unknown">>)
        insights == generate_document_insights(analysis_result)
        conversation_doc ==
            [id |-> None, file_name |-> filename_text(tk.file), file_path |-> tk.saved_path[1],
             file_type |-> file_type, file_size |-> tk.file.nbytes,
             analysis_result |-> analysis_result]
        tk1 == [Log(tk, <<"end advice", "begin persist", "begin insights", "end insights">>)
                  EXCEPT !.ai_advice = Some(ai_advice), !.insights = insights,
                         !.new_document = Some(conversation_doc),
                         !.new_messages =
                            <<UserMessage(<<"Uploaded document: ">> \o filename_text(tk.file),
                                          Some([file_id |-> conversation_doc.id,
                                                file_type |-> file_type])),
                              AssistantMessage(ai_advice, Some([insights |-> insights]))>>]
    IN IF Get(analysis_result, "text_content", <<>>) # <<>>
       THEN [tk1 EXCEPT !.calls = Append(@, call_detect_language(analysis_result.text_content)),
                        !.pc = "detect"]
       ELSE [tk1 EXCEPT !.conv_updated_at = Some(now), !.pc = "commit"]

\* upload_document after get_financial_document_advice returned, up to its next await.
after_document_advice(tk, ai_advice, now) ==
    LET analysis_result == tk.analysis_result[1]
        file_type == Get(analysis_result, "file_type", <<"Unknown">>)
        insights == generate_document_insights(analysis_result)
        conversation_doc ==
            [id |-> None, file_name |-> filename_text(tk.file), file_path |-> tk.saved_path[1],
             file_type |-> file_type, file_size |-> tk.file.nbytes,
             analysis_result |-> analysis_result]
        tk1 == [Log(tk, <<"end advice", "begin insights", "end insights", "begin persist">>)
                  EXCEPT !.ai_advice = Some(ai_advice), !.insights = insights,
                         !.new_document = Some(conversation_doc),
                         !.new_messages =
                            <<UserMessage(<<"Uploaded document: ">> \o filename_text(tk.file),
                                          Some([file_id |-> conversation_doc.id,
                                                file_type |-> file_type])),
                              AssistantMessage(ai_advice, Some([insights |-> insights]))>>]
    IN IF Get(analysis_result, "text_content", <<>>) # <<>>
       THEN [tk1 EXCEPT !.calls = Append(@, call_detect_language(analysis_result.text_content)),
                        !.pc = "detect"]
       ELSE [tk1 EXCEPT !.conv_updated_at = Some(now), !.pc = "commit"]

\* save_upload_file returned dest_path; upload_document runs on, through the analysis, to its next await.
after_save_upload_file(tk, dest_path, key) ==
    LET result == analyze_document(dest_path.suffix, tk.file.body)
        tk1 == [Log(tk, <<"begin save", "end save", "begin analyze">>)
                  EXCEPT !.saved_path = Some(dest_path), !.reads = @ + result.reads]
    IN IF result.raised THEN except_response(tk1, result.error)
       ELSE IF ~key THEN except_response(Log(tk1, <<"end analyze">>),
                                         <<"SUTRA_API_KEY environment variable not set">>)
       ELSE [Log(tk1, <<"end analyze", "begin advice">>)
               EXCEPT !.analysis_result = Some(result.value),
                      !.calls = <<call_get_financial_document_advice(
                                     result.value, Get(result.value, "file_type", <<"Unknown">>),
                                     tk.conversation_context)>>,
                      !.pc = "advise"]

\* get_conversation_context returned; the router runs on to its next await.
after_get_conversation_context(tk, rows, docs, key) ==
    LET conversation_context ==
            [i \in 1..Len(rows) |-> [role |-> rows[i].role, content |-> rows[i].content,
                                     timestamp |-> rows[i].timestamp]]
        document_context ==
            [i \in 1..Len(docs) |-> [file_name |-> docs[i].file_name,
                                     file_type |-> docs[i].file_type,
                                     analysis_result |-> Some(docs[i].analysis_result)]]
        tk1 == [tk EXCEPT !.rows = rows, !.docs = docs,
                          !.conversation_context = Some(conversation_context),
                          !.document_context = Some(document_context)]
    IN IF tk.kind = "upload_document"
       THEN [Log(tk1, <<"begin context", "end context">>) EXCEPT !.pc = "save"]
       ELSE IF ~key
       THEN except_response(tk1, <<"SUTRA_API_KEY environment variable not set">>)
       ELSE [tk1 EXCEPT !.calls = <<call_get_advice(tk.message, tk.language,
                                                    Some(conversation_context),
                                                    Some(document_context))>>,
                        !.pc = "advise"]

\* The rows a successful db.commit() of the request inserts, stamped at the flush.
inserted_messages(tk, first_id, ts1, ts2) ==
    << [id |-> first_id, conversation_id |-> tk.conversation[1],
        role |-> tk.new_messages[1].role, content |-> tk.new_messages[1].content,
        timestamp |-> ts1, message_metadata |-> tk.new_messages[1].message_metadata],
       [id |-> first_id + 1, conversation_id |-> tk.conversation[1],
        role |-> tk.new_messages[2].role, content |-> tk.new_messages[2].content,
        timestamp |-> ts2, message_metadata |-> tk.new_messages[2].message_metadata] >>

inserted_documents(tk, first_id, ts) ==
    IF tk.new_document = None THEN <<>>
    ELSE << [id |-> first_id, conversation_id |-> tk.conversation[1],
             file_name |-> tk.new_document[1].file_name,
             file_path |-> tk.new_document[1].file_path,
             file_type |-> tk.new_document[1].file_type,
             file_size |-> tk.new_document[1].file_size,
             analysis_result |-> json_loads_dumps(tk.new_document[1].analysis_result),
             uploaded_at |-> ts,
             \* history: the record as the analyzer returned it
             returned |-> tk.new_document[1].analysis_result] >>

\* History: the context a get-advice request saw, followed by the two messages it appended
\* (None when the request is an upload, or when the conversation changed after the request read it).
appended_context(tk, stored, ts1, ts2) ==
    IF tk.kind = "get_advice" /\ {tk.rows[i] : i \in 1..Len(tk.rows)} = stored
    THEN Some(tk.conversation_context[1]
              \o <<[role |-> "user", content |-> tk.message, timestamp |-> ts1],
                   [role |-> "assistant", content |-> tk.ai_advice[1], timestamp |-> ts2]>>)
    ELSE None

\* The UPDATE of the conversation row that the commit flushes: the unit of work writes the
\* columns whose value differs from the one the session loaded, and leaves the others alone.
updated_conversation(row, tk) ==
    [row EXCEPT !.language = IF tk.conv_language # None /\ tk.conv_language[1] # tk.loaded_language
                             THEN tk.conv_language[1] ELSE @,
                !.updated_at = IF tk.conv_updated_at # None THEN tk.conv_updated_at[1] ELSE @]

\* The response the router returns after the commit.
success_response(tk) ==
    IF tk.kind = "upload_document"
    THEN [Respond(Log(tk, <<"end persist">>), 201, <<>>)
            EXCEPT !.response = Some([file_path |-> tk.saved_path[1],
                                      file_type |-> Get(tk.analysis_result[1], "file_type", <<"Unknown">>),
                                      ai_advice |-> tk.ai_advice[1], insights |-> tk.insights,
                                      conversation_id |-> tk.conversation[1]])]
    ELSE [Respond(tk, 200, <<>>)
            EXCEPT !.response = Some([answer |-> tk.ai_advice[1],
                                      conversation_id |-> tk.conversation[1]])]

-----------------------------------------------------------------------------
(* Actions *)

Init ==
    /\ driver \in {"http", "direct"}
    /\ apiKey \in BOOLEAN
    /\ conversations = <<>>
    /\ messages = <<>>
    /\ documents = <<>>
    /\ clock = 0
    /\ uploads = {}
    /\ started = 0
    /\ tasks = [t \in Tasks |-> IdleTask]
    /\ last_context = <<>>

\* A request is served by the first slot that serves none.
Free(t) ==
    /\ driver = "http"
    /\ started < MaxRequests
    /\ tasks[t].kind = "idle"
    /\ \A u \in Tasks : u < t => tasks[u].kind # "idle"

\* The users a request may come from; the first request's user is the one called u1.
RequestUsers == {u \in Users : started > 0 \/ u = "u1"}

\* The conversation ids a client may send: none, a conversation of the store, or an id the store does not hold.
RequestConversationIds == {None} \cup {Some(i) : i \in 1..(Len(conversations) + 1)}

\* POST /ai/get-advice arrives.
post_get_advice(t) ==
    /\ Free(t)
    /\ \E user \in RequestUsers, conversation_id \in RequestConversationIds,
          message \in Prompts, language \in Languages :
          tasks' = [tasks EXCEPT ![t] =
                      enter_get_advice([IdleTask EXCEPT !.kind = "get_advice", !.pc = "entry",
                                                        !.id = started + 1, !.user = user,
                                                        !.conversation_id = conversation_id,
                                                        !.message = message,
                                                        !.language = language], apiKey)]
    /\ started' = started + 1
    /\ UNCHANGED <<driver, apiKey, conversations, messages, documents, clock, uploads, last_context>>

\* POST /ai/upload-document arrives.
post_upload_document(t) ==
    /\ Free(t)
    /\ \E user \in RequestUsers, conversation_id \in RequestConversationIds, file \in Files :
          tasks' = [tasks EXCEPT ![t] =
                      enter_upload_document([IdleTask EXCEPT !.kind = "upload_document",
                                                             !.pc = "entry", !.id = started + 1,
                                                             !.user = user,
                                                             !.conversation_id = conversation_id,
                                                             !.file = file], apiKey)]
    /\ started' = started + 1
    /\ UNCHANGED <<driver, apiKey, conversations, messages, documents, clock, uploads, last_context>>

\* The conversations the SELECT by id and owner finds.
owned(conversation_id, user) ==
    {i \in 1..Len(conversations) :
        conversations[i].id = conversation_id /\ conversations[i].user_id = user}

\* GET /ai/conversations/{conversation_id}: one SELECT (with its selectinloads), then the response.
get_conversation(t) ==
    /\ Free(t)
    /\ \E user \in RequestUsers, conversation_id \in 1..(Len(conversations) + 1) :
          LET tk == [IdleTask EXCEPT !.kind = "get_conversation", !.id = started + 1,
                                     !.user = user, !.conversation_id = Some(conversation_id)]
          IN tasks' = [tasks EXCEPT ![t] =
                IF owned(conversation_id, user) = {}
                THEN Respond([tk EXCEPT !.not_found = TRUE], 404, <<"Conversation not found">>)
                ELSE [Respond(tk, 200, <<>>)
                        EXCEPT !.conversation = Some(conversation_id),
                               !.response = Some([conversation |-> conversations[conversation_id],
                                                  messages |-> Rows(messages, conversation_id),
                                                  documents |-> Rows(documents, conversation_id)])]]
    /\ started' = started + 1
    /\ UNCHANGED <<driver, apiKey, conversations, messages, documents, clock, uploads, last_context>>

\* get_or_create_conversation resumes from its SELECT (or runs its INSERT and commit).
get_or_create_conversation(t) ==
    LET tk == tasks[t]
    IN /\ tk.pc = "conversation"
       /\ IF tk.conversation_id # None
          THEN /\ tasks' = [tasks EXCEPT ![t] =
                    IF owned(tk.conversation_id[1], tk.user) # {}
                    THEN [tk EXCEPT !.conversation = tk.conversation_id,
                                    !.loaded_language = conversations[tk.conversation_id[1]].language,
                                    !.pc = "context"]
                    ELSE except_response([tk EXCEPT !.not_found = TRUE],
                                         <<"404: ", "Conversation not found">>)]
               /\ UNCHANGED <<conversations, last_context>>
          ELSE \E committed \in BOOLEAN :
                  IF committed
                  THEN /\ conversations' =
                            Append(conversations,
                                   [id |-> Len(conversations) + 1, user_id |-> tk.user,
                                    language |-> <<"e", "n">>, created_at |-> clock,
                                    updated_at |-> clock])
                       /\ last_context' = Append(last_context, None)
                       /\ tasks' = [tasks EXCEPT ![t] =
                                      [tk EXCEPT !.conversation = Some(Len(conversations) + 1),
                                                 !.loaded_language = <<"e", "n">>,
                                                 !.created = TRUE, !.pc = "context"]]
                  ELSE /\ tasks' = [tasks EXCEPT ![t] = except_response(tk, <<"database error">>)]
                       /\ UNCHANGED <<conversations, last_context>>
       /\ UNCHANGED <<driver, apiKey, messages, documents, clock, uploads, started>>

\* A get_conversation_context that answers from what an earlier call on the conversation read.
get_conversation_context_remembered(t) ==
    LET tk == tasks[t]
        earlier == {u \in Tasks \ {t} : /\ tasks[u].conversation = tk.conversation
                                        /\ tasks[u].conversation_context # None}
    IN /\ tk.pc = "context"
       /\ \E rows \in IF earlier # {} THEN {tasks[u].rows : u \in earlier}
                       ELSE order_by(Rows(messages, tk.conversation[1]), "timestamp"),
             docs \in order_by(Rows(documents, tk.conversation[1]), "uploaded_at") :
             tasks' = [tasks EXCEPT ![t] = after_get_conversation_context(tk, rows, docs, apiKey)]
       /\ UNCHANGED <<driver, apiKey, conversations, messages, documents, clock, uploads, started,
                      last_context>>

\* get_conversation_context resumes from its SELECTs.
get_conversation_context(t) ==
    LET tk == tasks[t]
    IN /\ tk.pc = "context"
       /\ \E rows \in order_by(Rows(messages, tk.conversation[1]), "timestamp"),
             docs \in order_by(Rows(documents, tk.conversation[1]), "uploaded_at") :
             tasks' = [tasks EXCEPT ![t] = after_get_conversation_context(tk, rows, docs, apiKey)]
       /\ UNCHANGED <<driver, apiKey, conversations, messages, documents, clock, uploads, started,
                      last_context>>

\* save_upload_file resumes from upload_file.read(): the read or the write may fail.
save_upload_file(t) ==
    LET tk == tasks[t]
        dest_path == [name |-> tk.id, suffix |-> tk.file.filename[1].suffix]
    IN /\ tk.pc = "save"
       /\ \E outcome \in {"saved", "read failed", "write failed"} :
             IF outcome = "saved"
             THEN LET tk1 == after_save_upload_file(tk, dest_path, apiKey)
                  IN /\ tasks' = [tasks EXCEPT ![t] = tk1]
                     /\ uploads' = IF tk1.pc = "done"
                                   THEN cleanup(tk1, uploads \cup {dest_path})
                                   ELSE uploads \cup {dest_path}
             ELSE /\ tasks' = [tasks EXCEPT ![t] =
                                 except_response(Log(tk, <<"begin save">>), <<outcome>>)]
                  /\ uploads' = IF outcome = "write failed"
                                THEN uploads \cup {dest_path} ELSE uploads
       /\ UNCHANGED <<driver, apiKey, conversations, messages, documents, clock, started,
                      last_context>>

\* The router resumes after its advisor call returned `value`.
resume(tk, value, now) ==
    IF tk.kind = "direct" THEN [tk EXCEPT !.pc = "done"]
    ELSE IF tk.pc = "detect" THEN after_detect_language(tk, value, now)
    ELSE IF tk.kind = "get_advice" THEN after_get_advice(tk, value, now)
    ELSE after_document_advice(tk, value, now)

\* The caller of a call that raised: the router's except clause, or the direct caller.
raised(tk, exc) ==
    IF tk.kind = "direct" THEN [tk EXCEPT !.pc = "done", !.detail = exc]
    ELSE except_response(tk, exc)

\* One llm.ainvoke of the task's advisor call ends, with a reply or an exception.
llm_reply(t) ==
    LET tk == tasks[t]
    IN /\ tk.pc \in {"advise", "detect"}
       /\ \E reply \in IF tk.kind = "direct" THEN DirectLlmReplies ELSE LlmReplies :
             LET call == ainvoke(Last(tk.calls), reply)
                 tk1 == [tk EXCEPT !.calls[Len(tk.calls)] = call]
                 tk2 == IF call.pc = "raised" THEN raised(tk1, call.error[1])
                        ELSE IF call.pc = "returned" THEN resume(tk1, call.ret[1], clock)
                        ELSE tk1
             IN /\ tasks' = [tasks EXCEPT ![t] = tk2]
                /\ uploads' = IF call.pc = "raised" THEN cleanup(tk1, uploads) ELSE uploads
       /\ UNCHANGED <<driver, apiKey, conversations, messages, documents, clock, started,
                      last_context>>

\* db.commit() of the request ends: the flush inserted the rows, or it raised.
\* A commit that writes the conversation's collection of messages as the session loaded it,
\* with the two new messages added.
commit_loaded_collection(t) ==
    LET tk == tasks[t]
        kept == SelectSeq(messages, LAMBDA row : \/ row.conversation_id # tk.conversation[1]
                                                 \/ \E i \in 1..Len(tk.rows) : tk.rows[i] = row)
    IN /\ tk.pc = "commit"
       /\ \E committed \in BOOLEAN, d1 \in {0, 1}, d2 \in {0, 1} :
             IF committed
             THEN /\ messages' = kept
                        \o inserted_messages(tk, Len(messages) + 1, clock + d1, clock + d1 + d2)
                  /\ documents' = documents
                        \o inserted_documents(tk, Len(documents) + 1, clock + d1)
                  /\ conversations' =
                        [conversations EXCEPT ![tk.conversation[1]] = updated_conversation(@, tk)]
                  /\ clock' = clock + d1 + d2
                  /\ last_context' =
                        [last_context EXCEPT ![tk.conversation[1]] =
                            appended_context(tk, Rows(messages, tk.conversation[1]),
                                             clock + d1, clock + d1 + d2)]
                  /\ tasks' = [tasks EXCEPT ![t] = success_response(tk)]
                  /\ UNCHANGED uploads
             ELSE /\ d1 = 0 /\ d2 = 0
                  /\ tasks' = [tasks EXCEPT ![t] = except_response(tk, <<"database error">>)]
                  /\ uploads' = cleanup(tk, uploads)
                  /\ UNCHANGED <<conversations, messages, documents, clock, last_context>>
       /\ UNCHANGED <<driver, apiKey, started>>

commit(t) ==
    LET tk == tasks[t]
    IN /\ tk.pc = "commit"
       /\ \E committed \in BOOLEAN, d1 \in {0, 1}, d2 \in {0, 1} :
             IF committed
             THEN /\ messages' = messages
                        \o inserted_messages(tk, Len(messages) + 1, clock + d1, clock + d1 + d2)
                  /\ documents' = documents
                        \o inserted_documents(tk, Len(documents) + 1, clock + d1)
                  /\ conversations' =
                        [conversations EXCEPT ![tk.conversation[1]] = updated_conversation(@, tk)]
                  /\ clock' = clock + d1 + d2
                  /\ last_context' =
                        [last_context EXCEPT ![tk.conversation[1]] =
                            appended_context(tk, Rows(messages, tk.conversation[1]),
                                             clock + d1, clock + d1 + d2)]
                  /\ tasks' = [tasks EXCEPT ![t] = success_response(tk)]
                  /\ UNCHANGED uploads
             ELSE /\ d1 = 0 /\ d2 = 0
                  /\ tasks' = [tasks EXCEPT ![t] = except_response(tk, <<"database error">>)]
                  /\ uploads' = cleanup(tk, uploads)
                  /\ UNCHANGED <<conversations, messages, documents, clock, last_context>>
       /\ UNCHANGED <<driver, apiKey, started>>

-----------------------------------------------------------------------------
(* Direct calls of the services (as extract_text does, or a test), one at a time *)

DirectEntries ==
    [role : {"user", "assistant", "system"}, content : {<<"A">>, <<"B">>}, timestamp : {0}]

DirectContexts ==
    {None} \cup {Some(ctx) : ctx \in UNION {[1..n -> DirectEntries] : n \in 0..MaxContext}}

AnalyzedDocument ==
    [file_name |-> <<"statement", ".PDF">>, file_type |-> <<"PDF Document">>,
     analysis_result |-> Some(analyze_pdf(TextBody).value)]

BareDocument ==
    [file_name |-> <<"scan", ".png">>, file_type |-> <<"Image">>, analysis_result |-> None]

\* A text of one character more than the preview takes.
LongText == [i \in 1..(PreviewLen + 1) |-> IF i > PreviewLen THEN "z" ELSE "x"]

LongDocument ==
    [file_name |-> <<"ledger", ".docx">>, file_type |-> <<"Word Document">>,
     analysis_result |-> Some([file_type |-> <<"Word Document">>, analysis_type |-> "text_extraction",
                               summary |-> <<"Word document with ", "1", " paragraphs">>,
                               text_content |-> LongText])]

DirectDocuments ==
    {None, Some(<<>>), Some(<<AnalyzedDocument>>), Some(<<BareDocument, AnalyzedDocument>>),
     Some(<<BareDocument, LongDocument>>)}

DirectRecords ==
    { analyze_pdf(TextBody).value, analyze_image(BlankBody).value,
      analyze_csv_file(TableBody).value, analyze_excel_file(TableBody).value,
      analyze_word_document(BlankBody).value,
      [file_type |-> <<"Unknown">>, analysis_type |-> "general", summary |-> <<>>,
       text_content |-> <<"Total">>] }

\* Records that have the four keys of every analysis and no other.
BareRecords ==
    [file_type : {<<"Excel Spreadsheet">>, <<"CSV File">>, <<"PDF Document">>, <<"Word Document">>,
                  <<"Image">>, <<"Unknown">>, <<"Receipt">>},
     analysis_type : {"general"},
     summary : {<<"S">>},
     text_content : {<<>>, <<"Total", "Balance">>}]

\* A table of transactions whose text has seven words of the vocabulary.
LedgerRecord ==
    [file_type |-> <<"CSV File">>, analysis_type |-> "data_analysis", summary |-> <<"S">>,
     text_content |-> <<"Savings", "tax", "the", "loan", "Expense", "income", "budget", "cost">>,
     rows |-> 2, columns |-> 2, column_names |-> <<"Date", "Credit">>,
     numeric_columns |-> <<"Credit">>, potential_financial_columns |-> <<"Credit">>]

\* An image record whose size lost an item on its way.
BrokenRecord ==
    [file_type |-> <<"Image">>, analysis_type |-> "ocr_extraction", summary |-> <<"S">>,
     text_content |-> <<>>, image_size |-> list(<<7>>)]

InsightRecords == DirectRecords \cup BareRecords \cup {LedgerRecord, BrokenRecord}

DirectSuffixes == {<<".pdf">>, <<".PDF">>, <<".docx">>, <<".xls">>, <<".Csv">>, <<".png">>,
                   <<".TXT">>, <<".txt">>, <<>>}

DirectFree(t) == driver = "direct" /\ t = 1 /\ tasks[t].kind = "idle" /\ started < MaxRequests

\* AIFinancialAdvisor(): the constructor raises without the key; then the method runs to its first await.
construct_and_call(tk, call, key) ==
    IF ~key THEN [tk EXCEPT !.pc = "done", !.detail = <<"SUTRA_API_KEY environment variable not set">>]
    ELSE [tk EXCEPT !.pc = "advise", !.calls = <<call>>]

direct_get_advice(t) ==
    /\ DirectFree(t)
    /\ \E prompt \in Prompts, language \in Languages, conversation_context \in DirectContexts,
          document_context \in DirectDocuments :
          tasks' = [tasks EXCEPT ![t] =
                      construct_and_call([IdleTask EXCEPT !.kind = "direct", !.id = started + 1],
                                         call_get_advice(prompt, language, conversation_context,
                                                         document_context), apiKey)]
    /\ started' = started + 1
    /\ UNCHANGED <<driver, apiKey, conversations, messages, documents, clock, uploads, last_context>>

direct_detect_language(t) ==
    /\ DirectFree(t)
    /\ \E text \in Prompts \cup {<<>>} :
          tasks' = [tasks EXCEPT ![t] =
                      construct_and_call([IdleTask EXCEPT !.kind = "direct", !.id = started + 1],
                                         call_detect_language(text), apiKey)]
    /\ started' = started + 1
    /\ UNCHANGED <<driver, apiKey, conversations, messages, documents, clock, uploads, last_context>>

direct_get_financial_document_advice(t) ==
    /\ DirectFree(t)
    /\ \E analysis_result \in DirectRecords,
          conversation_context \in {None, Some(<<>>),
                                    Some(<<[role |-> "user", content |-> <<"A">>, timestamp |-> 0],
                                           [role |-> "system", content |-> <<"B">>, timestamp |-> 0]>>)} :
          tasks' = [tasks EXCEPT ![t] =
                      construct_and_call([IdleTask EXCEPT !.kind = "direct", !.id = started + 1],
                                         call_get_financial_document_advice(
                                             analysis_result, analysis_result.file_type,
                                             conversation_context), apiKey)]
    /\ started' = started + 1
    /\ UNCHANGED <<driver, apiKey, conversations, messages, documents, clock, uploads, last_context>>

\* AIFinancialAdvisor().generate_document_insights(analysis_result), which never suspends,
\* called on a record and then once more on the same record.
direct_generate_document_insights(t) ==
    \/ /\ DirectFree(t)
       /\ \E analysis_result \in InsightRecords :
             LET tk == [IdleTask EXCEPT !.id = started + 1,
                                        !.analysis_result = Some(analysis_result)]
                 error == insights_error(analysis_result)
             IN tasks' = [tasks EXCEPT ![t] =
                            IF ~apiKey
                            THEN [tk EXCEPT !.kind = "direct", !.detail =
                                              <<"SUTRA_API_KEY environment variable not set">>]
                            ELSE IF error # None
                            THEN [tk EXCEPT !.kind = "direct_insights", !.detail = error[1]]
                            ELSE [tk EXCEPT !.kind = "direct_insights", !.pc = "again",
                                            !.insights =
                                                generate_document_insights(analysis_result)]]
       /\ started' = started + 1
       /\ UNCHANGED <<driver, apiKey, conversations, messages, documents, clock, uploads,
                      last_context>>
    \/ /\ driver = "direct"
       /\ tasks[t].kind = "direct_insights"
       /\ tasks[t].pc = "again"
       /\ tasks' = [tasks EXCEPT ![t] =
                      [@ EXCEPT !.pc = "done",
                                !.response = Some([insights |->
                                    generate_document_insights(tasks[t].analysis_result[1])])]]
       /\ UNCHANGED <<driver, apiKey, conversations, messages, documents, clock, uploads,
                      started, last_context>>

\* extract_text(file_path): DocumentAnalyzer().analyze_document(file_path), which never suspends.
extract_text(t) ==
    /\ DirectFree(t)
    /\ \E suffix \in DirectSuffixes, body \in {NoBody, TextBody, BlankBody, TableBody, FlagBody} :
          LET result == analyze_document(suffix, body)
          IN tasks' = [tasks EXCEPT ![t] =
                         [IdleTask EXCEPT !.kind = "extract_text", !.id = started + 1,
                                          !.file = File(Name("file", suffix), None, 0, body),
                                          !.reads = result.reads,
                                          !.analysis_result =
                                              IF result.raised THEN None ELSE Some(result.value),
                                          !.detail = result.error]]
    /\ started' = started + 1
    /\ UNCHANGED <<driver, apiKey, conversations, messages, documents, clock, uploads, last_context>>

\* The response (or the exception) has left the task: get_db closes its session, the locals are gone.
finish(t) ==
    /\ tasks[t].kind # "idle"
    /\ tasks[t].pc = "done"
    /\ tasks' = [tasks EXCEPT ![t] = IdleTask]
    /\ UNCHANGED <<driver, apiKey, conversations, messages, documents, clock, uploads, started,
                   last_context>>

-----------------------------------------------------------------------------

Next ==
    \E t \in Tasks :
        \/ post_get_advice(t)
        \/ post_upload_document(t)
        \/ get_conversation(t)
        \/ get_or_create_conversation(t)
        \/ get_conversation_context(t)
        \/ save_upload_file(t)
        \/ llm_reply(t)
        \/ commit(t)
        \/ direct_get_advice(t)
        \/ direct_detect_language(t)
        \/ direct_get_financial_document_advice(t)
        \/ direct_generate_document_insights(t)
        \/ extract_text(t)
        \/ finish(t)

Spec == Init /\ [][Next]_vars


-----------------------------------------------------------------------------
(* Properties *)

Range(s) == {s[i] : i \in 1..Len(s)}

\* Every advisor call made so far by a task that is still there.
Calls == UNION {Range(tasks[t].calls) : t \in Tasks}

\* The positions of the entries get_advice recognises, and the k-th of them.
Recognised(ctx) == {i \in 1..Len(ctx) : ctx[i].role \in {"user", "assistant"}}

Kth(S, k) == CHOOSE x \in S : Cardinality({y \in S : y < x}) = k - 1

Context(c) ==
    IF c.args.conversation_context = None THEN <<>> ELSE c.args.conversation_context[1]

\* m is the full sequence of call c: one system message, the recognised entries of the
\* context in their order under their roles, the new user message.
FullSequence(c, m) ==
    LET ctx == Context(c)
        rec == Recognised(ctx)
    IN /\ Len(m) = Cardinality(rec) + 2
       /\ m[1].role = "system"
       /\ \A j \in 1..Cardinality(rec) :
             m[j + 1] = [role |-> ctx[Kth(rec, j)].role, content |-> ctx[Kth(rec, j)].content]
       /\ m[Len(m)] = [role |-> "user", content |-> c.args.prompt]

\* The invocations a get_advice call makes before the one that asks for the advice.
Detections(c) == IF c.args.language = None THEN 1 ELSE 0

\* C1: the message sequence get_advice hands to the language model is the system message,
\* then one message for each context entry whose role is user or assistant, in the order of
\* the context and under its role (entries of any other role leave no message), then the
\* new user message.
C1_MessageSequence ==
    \A c \in Calls :
        c.fn = "get_advice" =>
            \A k \in 1..Len(c.sent) : k > Detections(c) => FullSequence(c, c.sent[k].messages)

\* A get_advice call has returned whose context held a system entry and an assistant entry:
\* only the assistant entry stands between the system message and the new user message.
C1_Witness ==
    \E c \in Calls :
        /\ c.fn = "get_advice" /\ c.pc = "returned"
        /\ Len(Context(c)) = 2
        /\ Context(c)[1].role = "system" /\ Context(c)[2].role = "assistant"
        /\ Len(Last(c.sent).messages) = 3
        /\ Last(c.sent).messages[2] = AIMessage(Context(c)[2].content)

\* C2, as the specification states it: a get_advice call that returns has invoked the
\* language model exactly once, with the full sequence, and returns that completion unchanged.
C2_SingleInvocation ==
    \A c \in Calls :
        (c.fn = "get_advice" /\ c.pc = "returned") =>
            /\ Len(c.sent) = 1
            /\ FullSequence(c, c.sent[1].messages)
            /\ c.ret = Some(c.sent[1].reply.text)

\* C2, amended: a get_advice call invokes the language model with the full sequence at most
\* once, and exactly once when it returns, and it returns that invocation's completion text
\* unchanged; when no language argument is supplied that invocation comes second, after the
\* one invocation that detects the language of the prompt, and otherwise it is the only one.
C2_OneAdviceInvocation ==
    \A c \in Calls :
        c.fn = "get_advice" =>
            /\ Len(c.sent) <= Detections(c) + 1
            /\ \A k \in 1..Len(c.sent) :
                  k <= Detections(c) =>
                      /\ Len(c.sent[k].messages) = 1
                      /\ c.sent[k].messages[1].role = "user"
                      /\ ~FullSequence(c, c.sent[k].messages)
            /\ c.pc = "returned" =>
                  /\ Len(c.sent) = Detections(c) + 1
                  /\ FullSequence(c, Last(c.sent).messages)
                  /\ c.ret = Some(Last(c.sent).reply.text)

\* A get_advice call without a language argument has returned a completion that begins and
\* ends with white space, after two invocations.
C2_Witness ==
    \E c \in Calls :
        /\ c.fn = "get_advice" /\ c.pc = "returned"
        /\ c.args.language = None
        /\ Len(c.sent) = 2
        /\ c.ret = Some(<<" ", "E", "S", "\n">>)

ElevenExtensions ==
    {<<".pdf">>, <<".doc">>, <<".docx">>, <<".xlsx">>, <<".xls">>, <<".csv">>, <<".png">>,
     <<".jpg">>, <<".jpeg">>, <<".bmp">>, <<".tiff">>}

\* C3: analyze_document fails on a file whose extension, lower-cased, is none of the eleven
\* supported ones, without a read of the file (and reads a file whose extension is one of
\* them in any case of letters); the upload flow rejects such a file before the file is
\* saved and before a conversation is read or created.
C3_UnsupportedRejectedUnread ==
    \A t \in Tasks :
        LET tk == tasks[t]
            extension == lower(tk.file.filename[1].suffix)
        IN (tk.kind \in {"extract_text", "upload_document"} /\ tk.file.filename # None) =>
              IF extension \in ElevenExtensions
              THEN tk.kind = "extract_text" => tk.reads = 1
              ELSE /\ tk.reads = 0
                   /\ tk.analysis_result = None
                   /\ tk.kind = "extract_text" =>
                         tk.detail = <<"Unsupported file type: ">> \o extension
                   /\ tk.kind = "upload_document" =>
                         /\ tk.pc = "done"
                         /\ tk.status = IF apiKey THEN 400 ELSE 500
                         /\ apiKey => SubSeq(tk.detail, 1, 2) = <<"Unsupported file type: ">> \o extension
                         /\ tk.saved_path = None
                         /\ \A f \in uploads : f.name # tk.id
                         /\ tk.conversation = None /\ ~tk.created
                         /\ tk.conversation_context = None /\ tk.rows = <<>>

\* analyze_document was called on a file named *.TXT and raised without a read.
C3_Witness ==
    \E t \in Tasks :
        /\ tasks[t].kind = "extract_text"
        /\ tasks[t].file.filename[1].suffix = <<".TXT">>
        /\ tasks[t].reads = 0
        /\ tasks[t].detail = <<"Unsupported file type: ", ".txt">>

\* The reasons an upload can fail for after its file is written.
FailureCauses ==
    {<<"Error analyzing PDF: ", "bad file">>, <<"llm unavailable">>, <<"database error">>}

\* C4: an upload request that fails after its file is written (in the analysis, the advice,
\* the language detection or the commit) ends with status 400 whose detail carries the
\* message of the cause, and the file it saved is no longer there.
C4_SavedFileRemoved ==
    \A t \in Tasks :
        LET tk == tasks[t]
        IN (tk.kind = "upload_document" /\ tk.saved_path # None /\ tk.pc = "done"
            /\ tk.status # 201) =>
              /\ tk.saved_path[1] \notin uploads
              /\ tk.status = 400
              /\ \E cause \in FailureCauses :
                    /\ tk.detail = <<"Document analysis failed: ">> \o cause
                    /\ tk.analysis_result = None <=> cause = <<"Error analyzing PDF: ", "bad file">>
                    /\ (tk.calls # <<>> /\ Last(tk.calls).pc = "raised") <=>
                          cause = <<"llm unavailable">>
                    /\ (tk.calls # <<>> /\ Last(tk.calls).pc = "raised") =>
                          cause = Last(tk.calls).error[1]

\* An upload has failed in its language detection, after the advice was generated.
C4_Witness ==
    \E t \in Tasks :
        /\ tasks[t].kind = "upload_document" /\ tasks[t].pc = "done"
        /\ tasks[t].saved_path # None
        /\ Len(tasks[t].calls) = 2 /\ Last(tasks[t].calls).pc = "raised"
        /\ tasks[t].status = 400
        /\ tasks[t].saved_path[1] \notin uploads

\* C5: without the credential every upload-document and get-advice request ends with status
\* 500, and none of them reads or creates a conversation, writes a file or calls the model.
C5_MissingCredential ==
    (driver = "http" /\ ~apiKey) =>
        /\ conversations = <<>> /\ messages = <<>> /\ documents = <<>> /\ uploads = {}
        /\ \A t \in Tasks :
              tasks[t].kind \in {"upload_document", "get_advice"} =>
                  /\ tasks[t].pc = "done"
                  /\ tasks[t].status = 500
                  /\ tasks[t].calls = <<>>
                  /\ tasks[t].conversation = None /\ tasks[t].conversation_context = None
                  /\ tasks[t].saved_path = None

\* Without the credential an upload without a file name and a get-advice request on a
\* conversation id have both been answered 500.
C5_Witness ==
    /\ ~apiKey
    /\ \E t, u \in Tasks :
          /\ tasks[t].kind = "upload_document" /\ tasks[t].file.filename = None
          /\ tasks[t].status = 500
          /\ tasks[u].kind = "get_advice" /\ tasks[u].conversation_id # None
          /\ tasks[u].status = 500

InsertionOrdered(rows, field) ==
    \A i, j \in 1..Len(rows) :
        i < j => \/ rows[i][field] < rows[j][field]
                 \/ rows[i][field] = rows[j][field] /\ rows[i].id < rows[j].id

\* C7: the conversation_context a request is given holds the conversation's messages in
\* ascending order of timestamp, messages of equal timestamp in the order of their
\* insertion (the user message before the assistant message of the same request), and its
\* document_context holds the documents in ascending order of upload time.
C7_ContextInInsertionOrder ==
    \A t \in Tasks :
        LET tk == tasks[t]
        IN tk.conversation_context # None =>
              /\ InsertionOrdered(tk.rows, "timestamp")
              /\ Len(tk.conversation_context[1]) = Len(tk.rows)
              /\ \A i \in 1..Len(tk.rows) :
                    /\ tk.conversation_context[1][i].role = tk.rows[i].role
                    /\ tk.conversation_context[1][i].content = tk.rows[i].content
              /\ Len(tk.document_context[1]) = Len(tk.docs)
              /\ \A i, j \in 1..Len(tk.docs) :
                    i < j => tk.docs[i].uploaded_at <= tk.docs[j].uploaded_at
              /\ \A i \in 1..Len(tk.docs) :
                    tk.document_context[1][i].file_name = tk.docs[i].file_name

\* C8: the context the next request on a conversation is given, after a get-advice request
\* on it has succeeded with no other request in between, is the context that request was
\* given followed by its user message and its assistant message; and no request's context
\* holds a message the request itself appends.
C8_NextContextExtends ==
    [][\A t \in Tasks :
          /\ (tasks[t].pc = "context" /\ tasks'[t].pc # "context"
              /\ last_context[tasks[t].conversation[1]] # None) =>
                 tasks'[t].conversation_context = last_context[tasks[t].conversation[1]]
          /\ (tasks[t].pc = "commit" /\ tasks'[t].status \in {200, 201}) =>
                 \A i \in (Len(messages) + 1)..Len(messages') :
                    messages'[i] \notin Range(tasks[t].rows)]_vars

\* The five steps of an upload task, of the steps it logs.
IsStep(entry) ==
    entry \in {"begin analyze", "end analyze", "begin insights", "end insights",
               "begin context", "end context", "begin advice", "end advice",
               "begin persist", "end persist"}

IsPrefix(s, full) == Len(s) <= Len(full) /\ s = SubSeq(full, 1, Len(s))

\* C9, as the specification states it: the steps of an upload task run one after another in
\* the order analyze, extract insights, assemble context, generate advice, persist.
C9_SpecifiedStepOrder ==
    \A t \in Tasks :
        tasks[t].kind = "upload_document" =>
            IsPrefix(SelectSeq(tasks[t].steps, IsStep),
                     <<"begin analyze", "end analyze", "begin insights", "end insights",
                       "begin context", "end context", "begin advice", "end advice",
                       "begin persist", "end persist">>)

\* C9, amended: the steps of an upload task run one after another, each ended before the
\* next begins, in the order assemble context, analyze, generate advice, extract insights,
\* persist; a task that answers 201 has run all five.
C9_StepOrder ==
    \A t \in Tasks :
        tasks[t].kind = "upload_document" =>
            /\ IsPrefix(SelectSeq(tasks[t].steps, IsStep),
                        <<"begin context", "end context", "begin analyze", "end analyze",
                          "begin advice", "end advice", "begin insights", "end insights",
                          "begin persist", "end persist">>)
            /\ tasks[t].status = 201 => Len(SelectSeq(tasks[t].steps, IsStep)) = 10

\* An upload has answered 201 after all of its steps.
C9_Witness ==
    \E t \in Tasks :
        /\ tasks[t].kind = "upload_document" /\ tasks[t].status = 201
        /\ Len(tasks[t].steps) = 12
        /\ tasks[t].steps[1] = "begin context"
        /\ tasks[t].steps[9] = "begin insights"

\* C10: a request that names a conversation which does not exist, or is another user's,
\* ends with status 404, and it reads, returns, hands to the model and adds nothing.
C10_NotFoundIs404 ==
    \A t \in Tasks :
        tasks[t].not_found =>
            /\ tasks[t].pc = "done"
            /\ tasks[t].status = 404
            /\ tasks[t].response = None
            /\ tasks[t].conversation = None /\ tasks[t].conversation_context = None
            /\ tasks[t].calls = <<>>
            /\ tasks[t].new_messages = <<>> /\ tasks[t].new_document = None
            /\ tasks[t].saved_path = None

FiftyMegabytes == 50 * 1024 * 1024

\* The upload of task tk is larger than 50 MB, or its extension is none of the allowed ones.
Inadmissible(tk) ==
    /\ tk.kind = "upload_document"
    /\ \/ tk.file.nbytes > FiftyMegabytes
       \/ tk.file.filename # None /\ lower(tk.file.filename[1].suffix) \notin ElevenExtensions

\* Nothing of the upload of task tk was written to storage or seen by the Document Analyzer.
NeverStoredOrAnalyzed(tk) ==
    /\ tk.pc = "done"
    /\ tk.saved_path = None
    /\ \A f \in uploads : f.name # tk.id
    /\ tk.reads = 0 /\ tk.analysis_result = None
    /\ "begin save" \notin Range(tk.steps) /\ "begin analyze" \notin Range(tk.steps)

\* C11, as the specification states it: an upload larger than 50 MB or with an extension
\* outside the allow-list is never written to storage or passed to the Document Analyzer,
\* and an upload larger than 50 MB ends with status 413.
C11_OversizeIs413 ==
    \A t \in Tasks :
        Inadmissible(tasks[t]) =>
            /\ NeverStoredOrAnalyzed(tasks[t])
            /\ tasks[t].file.nbytes > FiftyMegabytes => tasks[t].status = 413

\* C11, amended: an upload larger than 50 MB or with an extension outside the allow-list is
\* never written to storage or passed to the Document Analyzer; an upload larger than 50 MB
\* ends with status 413 when the credential is configured, and with status 500, as every
\* upload does, when it is not.
C11_OversizeRejected ==
    \A t \in Tasks :
        Inadmissible(tasks[t]) =>
            /\ NeverStoredOrAnalyzed(tasks[t])
            /\ tasks[t].file.nbytes > FiftyMegabytes =>
                  tasks[t].status = IF apiKey THEN 413 ELSE 500

\* With the credential configured, an upload of more than 50 MB under an allowed extension
\* was answered 413.
C11_Witness ==
    /\ apiKey
    /\ \E t \in Tasks :
          /\ tasks[t].kind = "upload_document"
          /\ tasks[t].file.nbytes > FiftyMegabytes
          /\ lower(tasks[t].file.filename[1].suffix) \in ElevenExtensions
          /\ tasks[t].status = 413
          /\ uploads = {}

\* The rows of a table that belong to conversation b.
Of(table, b) == {r \in Range(table) : r.conversation_id = b}

\* C12: under every interleaving of the requests, a step that adds, removes or changes a
\* message, a document or the language of a conversation is the commit of a request that
\* operates on that conversation, and the context a request assembles holds only messages
\* and documents of its own conversation.
C12_ConversationsIsolated ==
    [][/\ \A b \in 1..Len(conversations) :
             (\/ Of(messages', b) # Of(messages, b)
              \/ Of(documents', b) # Of(documents, b)
              \/ conversations'[b].language # conversations[b].language) =>
                 \E t \in Tasks :
                    /\ tasks[t].conversation = Some(b)
                    /\ tasks[t].pc = "commit" /\ tasks'[t].pc = "done"
                    /\ \A u \in Tasks \ {t} : tasks'[u] = tasks[u]
       /\ \A t \in Tasks :
             tasks'[t].conversation_context # None =>
                /\ \A r \in Range(tasks'[t].rows) \cup Range(tasks'[t].docs) :
                      r.conversation_id = tasks'[t].conversation[1]
                /\ Len(tasks'[t].conversation_context[1]) = Len(tasks'[t].rows)
                /\ Len(tasks'[t].document_context[1]) = Len(tasks'[t].docs)]_vars

\* Two conversations hold messages, and the request that has just succeeded on the second
\* one was given an empty context.
C12_Witness ==
    \E t \in Tasks :
        /\ tasks[t].status \in {200, 201}
        /\ tasks[t].conversation = Some(2)
        /\ tasks[t].conversation_context = Some(<<>>)
        /\ Of(messages, 1) # {} /\ Of(messages, 2) # {}

\* The category label and the analysis type of a supported extension.
CategoryLabel(extension) ==
    CASE extension = <<".pdf">> -> <<"PDF Document">>
      [] extension \in {<<".doc">>, <<".docx">>} -> <<"Word Document">>
      [] extension \in {<<".xlsx">>, <<".xls">>} -> <<"Excel Spreadsheet">>
      [] extension = <<".csv">> -> <<"CSV File">>
      [] OTHER -> <<"Image">>

AnalysisType(extension) ==
    CASE extension \in {<<".pdf">>, <<".doc">>, <<".docx">>} -> "text_extraction"
      [] extension \in {<<".xlsx">>, <<".xls">>, <<".csv">>} -> "data_analysis"
      [] OTHER -> "ocr_extraction"

\* v is a str (possibly the empty one), not null and not a value of another type.
IsText(v) == v \in Seq(STRING)

\* C13: the record of every successful analysis of a file with a supported extension has
\* the keys file_type, analysis_type, summary and text_content, none of them null;
\* file_type is the category label of the extension, and analysis_type is text_extraction
\* for PDF and Word, data_analysis for Excel and CSV, ocr_extraction for an image.
C13_RecordKeys ==
    \A t \in Tasks :
        LET tk == tasks[t]
            extension == lower(tk.file.filename[1].suffix)
            record == tk.analysis_result[1]
        IN (tk.kind \in {"extract_text", "upload_document"} /\ tk.analysis_result # None) =>
              /\ extension \in ElevenExtensions
              /\ {"file_type", "analysis_type", "summary", "text_content"} \subseteq DOMAIN record
              /\ record.file_type = CategoryLabel(extension)
              /\ record.analysis_type = AnalysisType(extension)
              /\ IsText(record.summary) /\ record.summary # <<>>
              /\ IsText(record.text_content)

\* Records of all five formats were returned: here the one of an image without any text,
\* whose text_content is the empty string.
C13_Witness ==
    \E t \in Tasks :
        /\ tasks[t].kind = "extract_text"
        /\ tasks[t].file.filename[1].suffix = <<".png">>
        /\ tasks[t].analysis_result # None
        /\ tasks[t].analysis_result[1].text_content = <<>>
        /\ tasks[t].analysis_result[1].analysis_type = "ocr_extraction"

\* C14: the analysis_result of every document_context entry, read back from the stored
\* ConversationDocument, has exactly the keys and the values of the record the analyzer
\* returned for that document, whatever the format.
C14_RecordRoundTrip ==
    \A t \in Tasks :
        tasks[t].document_context # None =>
            \A i \in 1..Len(tasks[t].docs) :
                LET entry == tasks[t].document_context[1][i]
                    record == tasks[t].docs[i].returned
                IN /\ entry.analysis_result # None
                   /\ DOMAIN entry.analysis_result[1] = DOMAIN record
                   /\ \A k \in DOMAIN record : entry.analysis_result[1][k] = record[k]

\* C15: a call of get_conversation_context changes no conversation, message or document
\* (nor a language or an updated_at), and it returns the messages and the documents that
\* are stored for the conversation when it is called, each once.
C15_ContextReadOnly ==
    [][\A t \in Tasks :
          (tasks[t].pc = "context" /\ tasks'[t].pc # "context") =>
             /\ conversations' = conversations
             /\ messages' = messages /\ documents' = documents
             /\ Range(tasks'[t].rows) = Of(messages, tasks[t].conversation[1])
             /\ Len(tasks'[t].rows) = Cardinality(Of(messages, tasks[t].conversation[1]))
             /\ Range(tasks'[t].docs) = Of(documents, tasks[t].conversation[1])
             /\ Len(tasks'[t].docs) = Cardinality(Of(documents, tasks[t].conversation[1]))
             /\ \A i \in 1..Len(tasks'[t].rows) :
                   tasks'[t].conversation_context[1][i] =
                      [role |-> tasks'[t].rows[i].role, content |-> tasks'[t].rows[i].content,
                       timestamp |-> tasks'[t].rows[i].timestamp]]_vars

\* Two calls on one conversation have returned different contexts: an empty one, and after
\* the commit of the first request one of two messages.
C15_Witness ==
    \E t, u \in Tasks :
        /\ tasks[t].conversation # None
        /\ tasks[t].conversation = tasks[u].conversation
        /\ tasks[t].conversation_context = Some(<<>>)
        /\ tasks[u].conversation_context # None
        /\ Len(tasks[u].conversation_context[1]) = 2

\* The language a request declares (the language of a get-advice request, when it has one)
\* or has detected (what its own detect_language call returned); None when it has neither.
DeclaredOrDetected(tk) ==
    IF tk.kind = "get_advice" /\ Truthy(tk.language) THEN tk.language
    ELSE IF tk.calls # <<>> /\ Last(tk.calls).fn = "detect_language" THEN Last(tk.calls).ret
    ELSE None

\* C16: when a request on a conversation succeeds, the conversation's language is the one
\* that request declared or detected, and if the request did neither, the language the
\* conversation had.
C16_LanguageIsLatest ==
    [][\A t \in Tasks :
          (tasks[t].pc = "commit" /\ tasks'[t].status \in {200, 201}) =>
             conversations'[tasks[t].conversation[1]].language =
                IF DeclaredOrDetected(tasks[t]) # None
                THEN DeclaredOrDetected(tasks[t])[1]
                ELSE conversations[tasks[t].conversation[1]].language]_vars

\* The positions of a text that hold something other than white space.
Inked(text) == {i \in 1..Len(text) : text[i] \notin {" ", "\n", "\t"}}

\* The result of the language detection whose invocation is the k-th of call c.
Detected(c, k) ==
    IF c.fn = "detect_language" THEN c.ret
    ELSE IF k < Len(c.sent) \/ c.pc \in {"invoke", "returned"} THEN c.language
    ELSE None

\* C17: what detect_language returns for a response of the language model is that response
\* from its first to its last character that is not white space, in lower case, and it is
\* "en" when the response has no such character (as for an empty response to an empty text).
C17_DetectedLanguage ==
    \A c \in Calls :
        \A k \in 1..Len(c.sent) :
            (Len(c.sent[k].messages) = 1 /\ c.sent[k].reply.ok) =>
                LET text == c.sent[k].reply.text
                    first == CHOOSE i \in Inked(text) : \A j \in Inked(text) : i <= j
                    last == CHOOSE i \in Inked(text) : \A j \in Inked(text) : j <= i
                    code == Detected(c, k)[1]
                IN /\ Detected(c, k) # None
                   /\ IF Inked(text) = {} THEN code = <<"e", "n">>
                      ELSE /\ Len(code) = last - first + 1
                           /\ \A i \in 1..Len(code) :
                                 /\ code[i] = lower_char(text[first + i - 1])
                                 /\ code[i] \notin {"E", "S", "N", "T", "A", "B"}

\* detect_language was called on the empty text, the model answered the empty string, and
\* the call returned "en".
C17_Witness ==
    \E c \in Calls :
        /\ c.fn = "detect_language" /\ c.pc = "returned"
        /\ c.args.prompt = <<>>
        /\ c.sent[1].reply.text = <<>>
        /\ c.ret = Some(<<"e", "n">>)

FourKeys == {"file_type", "analysis_type", "summary", "text_content"}

Rule(insight) ==
    CASE insight[1] = "Financial keywords found: " -> 1
      [] insight[1] = "Expense data found" -> 2
      [] insight[1] = "Credit information found" -> 3
      [] OTHER -> 0

\* How the insights of the branch of a file type begin.
BranchOpenings(file_type) ==
    CASE file_type = <<"Excel Spreadsheet">> ->
             {"Excel file contains ", "Detected financial columns: ", "Contains "}
      [] file_type = <<"CSV File">> -> {"CSV file with ", "Financial data columns identified: "}
      [] file_type = <<"PDF Document">> -> {"PDF document with ", "Contains "}
      [] file_type = <<"Word Document">> -> {"Word document with ", "Contains "}
      [] file_type = <<"Image">> -> {"Image document (", "OCR extracted "}
      [] OTHER -> {}

\* The positions in the vocabulary of the words that occur in the text, whatever their case.
FoundAt(text) ==
    {k \in 1..Len(financial_keywords) :
        \E i \in 1..Len(text) : lower_char(text[i]) = financial_keywords[k]}

\* The keywords an insight lists, without the separators between them.
Listed(insight) == [i \in 1..(Len(insight) \div 2) |-> insight[2 * i]]

\* The tasks in which generate_document_insights has returned, for a record.
Extracted ==
    {t \in Tasks : /\ tasks[t].analysis_result # None
                   /\ \/ tasks[t].kind = "direct_insights" /\ tasks[t].detail = <<>>
                      \/ tasks[t].kind = "upload_document" /\ tasks[t].ai_advice # None}

\* C19: the insights come in the order of the rules: those of the one branch of the record's
\* file type, then at most one insight of keywords, then at most one 'Expense data found',
\* then at most one 'Credit information found'; the insight of keywords is there when a word
\* of the vocabulary is in the text, and lists the first five (or fewer) of the words found,
\* in the order of the vocabulary.
C19_InsightOrder ==
    \A t \in Extracted :
        LET record == tasks[t].analysis_result[1]
            insights == tasks[t].insights
            found == FoundAt(Get(record, "text_content", <<>>))
            n == IF Cardinality(found) < 5 THEN Cardinality(found) ELSE 5
        IN /\ \A i, j \in 1..Len(insights) :
                 i < j => /\ Rule(insights[i]) <= Rule(insights[j])
                          /\ Rule(insights[j]) > 0 => Rule(insights[i]) < Rule(insights[j])
           /\ \A i \in 1..Len(insights) :
                 Rule(insights[i]) = 0 =>
                    insights[i][1] \in BranchOpenings(Get(record, "file_type", <<"Unknown">>))
           /\ (found # {}) <=> (\E i \in 1..Len(insights) : Rule(insights[i]) = 1)
           /\ \A i \in 1..Len(insights) :
                 Rule(insights[i]) = 1 =>
                    /\ Len(insights[i]) = 2 * n
                    /\ \A k \in 1..n : Listed(insights[i])[k] = financial_keywords[Kth(found, k)]

\* Seven words of the vocabulary are in the text of a record and five are listed, after the
\* insights of the file type and before the insights on expenses and on credit.
C19_Witness ==
    \E t \in Extracted :
        /\ tasks[t].kind = "direct_insights"
        /\ Cardinality(FoundAt(tasks[t].analysis_result[1].text_content)) = 7
        /\ [i \in 1..Len(tasks[t].insights) |-> Rule(tasks[t].insights[i])] = <<0, 0, 1, 2, 3>>
        /\ Listed(tasks[t].insights[3]) = <<"expense", "income", "budget", "cost", "loan">>

\* The tabular analysis of a record of the analyzer: of the sheet of an Excel file, of a CSV file.
Tabular(record) == IF "sheets" \in DOMAIN record THEN record.sheets[1] ELSE record

\* The text has the part in it, as a run of consecutive tokens.
Embeds(text, part) ==
    \E i \in 0..(Len(text) - Len(part)) : SubSeq(text, i + 1, i + Len(part)) = part

\* C20: for a record of an Excel or CSV file, the user prompt that get_financial_document_advice
\* sends last has in it the summary, the row count, the column count, the column names, the
\* numeric columns and the potential financial columns of the tabular analysis of the file.
C20_TabularPrompt ==
    \A c \in Calls :
        (/\ c.fn = "get_financial_document_advice"
         /\ c.args.analysis_result.file_type \in {<<"Excel Spreadsheet">>, <<"CSV File">>}
         /\ c.sent # <<>>
         /\ Len(Last(c.sent).messages) > 1) =>
            LET prompt == Last(Last(c.sent).messages).content
                table == Tabular(c.args.analysis_result)
            IN /\ Last(Last(c.sent).messages).role = "user"
               /\ Embeds(prompt, <<"File Summary: ">> \o c.args.analysis_result.summary)
               /\ Embeds(prompt, <<"Rows: ", ToString(table.rows)>>)
               /\ Embeds(prompt, <<"Columns: ", ToString(table.columns)>>)
               /\ Embeds(prompt, <<"Column Names: ">> \o join(table.column_names))
               /\ Embeds(prompt, <<"Numeric Columns: ">> \o join(table.numeric_columns))
               /\ Embeds(prompt, <<"Potential Financial Columns: ">>
                                 \o join(Get(table, "potential_financial_columns", <<>>)))

\* The positions of a text at which a token stands.
Where(text, token) == {i \in 1..Len(text) : text[i] = token}

\* The k-th document block of a system instruction: from its opening to the next opening,
\* or to the sentence that closes the document context.
Block(system, k) ==
    LET opens == Where(system, "Document: ")
        first == Kth(opens, k)
        after == {i \in opens \cup Where(system, "Use this document context") : i > first}
    IN SubSeq(system, first, (CHOOSE i \in after : \A j \in after : i <= j) - 1)

\* C21: the system instruction of get_advice has one block for each document of
\* document_context, in the order of document_context and none without documents; a block
\* opens with the name and the type of its document, has a summary or a preview only if the
\* document has an analysis, and its preview is a beginning of the document's text_content
\* of at most 500 characters.
C21_DocumentBlocks ==
    \A c \in Calls :
        \A n \in 1..Len(c.sent) :
            (c.fn = "get_advice" /\ Len(c.sent[n].messages) > 1) =>
                LET system == c.sent[n].messages[1].content
                    docs == IF c.args.document_context = None THEN <<>>
                            ELSE c.args.document_context[1]
                IN /\ Cardinality(Where(system, "Document: ")) = Len(docs)
                   /\ \A k \in 1..Len(docs) :
                         LET block == Block(system, k)
                             analysed == Get(docs[k], "analysis_result", None) # None
                             previews == Where(block, "Content Preview: ")
                         IN /\ IsPrefix(<<"Document: ">> \o Get(docs[k], "file_name", <<"Unknown">>)
                                        \o <<"Type: ">> \o Get(docs[k], "file_type", <<"Unknown">>),
                                        block)
                            /\ Where(block, "Summary: ") # {} => analysed
                            /\ previews # {} =>
                                  /\ analysed
                                  /\ Cardinality(previews) = 1
                                  /\ LET from == CHOOSE i \in previews : TRUE
                                         preview == SubSeq(block, from + 1, Len(block) - 1)
                                     IN /\ Len(preview) <= 500
                                        /\ IsPrefix(preview, docs[k].analysis_result[1].text_content)

\* get_advice has sent a system instruction for a document without an analysis followed by a
\* document whose text is longer than 500 characters: its preview has 500 of them.
C21_Witness ==
    \E c \in Calls :
        /\ c.fn = "get_advice"
        /\ c.sent # <<>>
        /\ Len(Last(c.sent).messages) > 1
        /\ c.args.document_context # None
        /\ Len(c.args.document_context[1]) = 2
        /\ c.args.document_context[1][1].analysis_result = None
        /\ Len(c.args.document_context[1][2].analysis_result[1].text_content) > 500
        /\ Len(Block(Last(c.sent).messages[1].content, 1)) = 5
        /\ Len(Block(Last(c.sent).messages[1].content, 2)) = 5 + 4 + 1 + 500 + 1

\* How many times a name occurs in a sequence of names.
Occurrences(names, name) == Cardinality(Where(names, name))

\* The records of tables that analyze_document has returned to a task.
TableRecords ==
    {Tabular(tasks[t].analysis_result[1]) :
        t \in {u \in Tasks : /\ tasks[u].kind \in {"extract_text", "upload_document"}
                             /\ tasks[u].analysis_result # None
                             /\ tasks[u].analysis_result[1].analysis_type = "data_analysis"}}

\* C22: in the tabular analysis of every table, each column name is in exactly one of
\* numeric_columns, text_columns and date_columns.
C22_ColumnsPartitioned ==
    \A table \in TableRecords :
        \A i \in 1..Len(table.column_names) :
            Occurrences(table.numeric_columns, table.column_names[i])
            + Occurrences(table.text_columns, table.column_names[i])
            + Occurrences(table.date_columns, table.column_names[i]) = 1

\* The get-advice and upload-document requests that have ended in an error.
Failed ==
    {t \in Tasks : /\ tasks[t].kind \in {"get_advice", "upload_document"}
                   /\ tasks[t].pc = "done"
                   /\ tasks[t].status >= 400}

\* C23: a get-advice or upload-document request that has ended in an error has left nothing
\* in the persisted state: no stored conversation is one that the request created, as a
\* request without a conversation id does.
C23_ErrorLeavesNoTrace ==
    \A t \in Failed :
        \A c \in DOMAIN conversations :
            ~(tasks[t].conversation_id = None /\ tasks[t].conversation = Some(c))

\* The stored messages that record an upload.
UploadMessages ==
    {i \in DOMAIN messages : /\ messages[i].role = "user"
                             /\ messages[i].content[1] = "Uploaded document: "}

\* C24: every stored message 'Uploaded document: <name>' has in its metadata a file_id that
\* is the id of the document of that name stored for the same conversation at the same commit.
C24_FileIdIsDocumentId ==
    \A i \in UploadMessages :
        /\ messages[i].message_metadata # None
        /\ \E j \in DOMAIN documents :
              /\ documents[j].conversation_id = messages[i].conversation_id
              /\ documents[j].uploaded_at = messages[i].timestamp
              /\ <<"Uploaded document: ">> \o documents[j].file_name = messages[i].content
              /\ messages[i].message_metadata[1].file_id = Some(documents[j].id)

\* The language code in the system instruction that get_advice (call c) sent with its request
\* for advice: what stands between the opening sentence and the language guidelines.
Instructed(c) ==
    LET system == Last(c.sent).messages[1].content
        stop == CHOOSE i \in Where(system, "Language guidelines") :
                   \A j \in Where(system, "Language guidelines") : i <= j
    IN SubSeq(system, 2, stop - 1)

\* C25: when a get-advice request commits and succeeds, the language of its conversation
\* is from then on the language code that stands in the system instruction the request sent.
C25_StoredLanguageIsInstructed ==
    [][\A t \in Tasks :
          (/\ tasks[t].kind = "get_advice"
           /\ tasks[t].pc = "commit"
           /\ tasks'[t].status = 200) =>
              conversations'[tasks[t].conversation[1]].language = Instructed(tasks[t].calls[1])]_vars

\* The content of the user message a request stores.
StoredContent(tk) ==
    IF tk.kind = "upload_document" THEN <<"Uploaded document: ">> \o filename_text(tk.file)
    ELSE tk.message

\* C26: no step removes or changes a stored message or document, also while requests on the
\* same conversation overlap; a step adds either no message or two, and the commit of a
\* request that succeeds adds, for the conversation of the request, its user message and then
\* its assistant message, and its document if the request is an upload.
C26_NoAppendLost ==
    [][/\ IsPrefix(messages, messages')
       /\ IsPrefix(documents, documents')
       /\ Len(messages') \in {Len(messages), Len(messages) + 2}
       /\ \A t \in Tasks :
             (tasks[t].pc = "commit" /\ tasks'[t].status \in {200, 201}) =>
                LET n == Len(messages)
                    conversation == tasks[t].conversation[1]
                IN /\ Len(messages') = n + 2
                   /\ messages'[n + 1].conversation_id = conversation
                   /\ messages'[n + 1].role = "user"
                   /\ messages'[n + 1].content = StoredContent(tasks[t])
                   /\ messages'[n + 2].conversation_id = conversation
                   /\ messages'[n + 2].role = "assistant"
                   /\ messages'[n + 2].content = tasks[t].ai_advice[1]
                   /\ IF tasks[t].kind = "upload_document"
                      THEN /\ Len(documents') = Len(documents) + 1
                           /\ Last(documents').conversation_id = conversation
                           /\ Last(documents').file_name = filename_text(tasks[t].file)
                      ELSE documents' = documents]_vars

\* An upload and a get-advice request on one conversation have both succeeded, each having
\* read the conversation while it was empty, and the conversation holds the four messages
\* and the document.
C26_Witness ==
    \E t, u \in Tasks :
        /\ tasks[t].kind = "upload_document" /\ tasks[t].status = 201
        /\ tasks[u].kind = "get_advice" /\ tasks[u].status = 200
        /\ tasks[t].conversation = tasks[u].conversation
        /\ tasks[t].rows = <<>> /\ tasks[u].rows = <<>>
        /\ Cardinality(Rows(messages, tasks[t].conversation[1])) = 4
        /\ Cardinality(Rows(documents, tasks[t].conversation[1])) = 1

=============================================================================
